---- MODULE Spec2Model ----
(***************************************************************************)
(* State-machine model of the Ram-Tester firmware core: the 16-pin,        *)
(* 18-pin and 20-pin family test routines (presence and type sensing,      *)
(* address-line verification, the six pattern passes with staggered        *)
(* retention read-back, the refresh-counter test) and the error()/testOK() *)
(* reporting routines, run against a simulated DRAM chip with faults.      *)
(***************************************************************************)
EXTENDS Integers, Sequences, FiniteSets, TLC

VARIABLES
  family,               \* which family routine the dispatcher started
  chip,                 \* the physical chip in the socket (never changes)
  pc,                   \* position of the run inside the family routine
  type,                 \* global int type
  bitIdx,               \* loop variable b of the address-line verifiers
  patNr,                \* loop variable patNr of the pattern loops
  row,                  \* loop variable row of the pattern loops
  cells,                \* chip contents written cell by cell
  rowTag,               \* chip contents written row by row
  error_in_lower_half,  \* half-good tracking, A7 = 0
  error_in_upper_half,  \* half-good tracking, A7 = 1
  chip_half_status,     \* revision 4.0: half-good tracking by column half
  typeSuffix,           \* global typeSuffix
  invCount,             \* how often invertRandomTable() has run
  randomTable,          \* global randomTable[256]
  shown,                \* text handed to writeRAMType()
  led,                  \* LED state inside the terminal blink loops
  blinks,               \* completed blink periods (capped)
  written,              \* rows written so far in the current pattern pass
  checked,              \* rows read back so far in the current pattern pass
  ev,                   \* DRAM row operations of the last step, in order
  interrupts,           \* the I flag of SREG: interrupts are enabled
  rev,                  \* revision of the reporting routine
  ecode,                \* error(): argument code
  ekind,                \* error(): argument error
  erow,                 \* error(): argument row
  ecol,                 \* error(): argument col
  ports,                \* PORTB, PORTC, PORTD as the port operations leave them
  ip                    \* number of port operations the routine has made

vars == <<family, chip, pc, type, bitIdx, patNr, row, cells, rowTag,
          error_in_lower_half, error_in_upper_half, chip_half_status, typeSuffix,
          invCount,
          randomTable, shown, led, blinks, written, checked, ev, interrupts,
          rev, ecode, ekind, erow, ecol, ports, ip>>

-----------------------------------------------------------------------------
(* Bounds of the model                                                     *)

\* blink periods of a terminal loop that are followed before the counter
\* saturates
MaxBlinks == 2

-----------------------------------------------------------------------------
(* Integer helpers for the C bit operations                                *)

Pow2(n) == 2 ^ n

BitOf(x, b) == (x \div Pow2(b)) % 2

WithBit(x, b, v) == x - (BitOf(x, b) * Pow2(b)) + (v * Pow2(b))

\* the function f with all its values computed
Tabulate(f) == f @@ << >>

RECURSIVE XorN(_, _)
XorN(a, b) ==
  IF a = 0 THEN b
  ELSE IF b = 0 THEN a
  ELSE 2 * XorN(a \div 2, b \div 2) + ((a + b) % 2)

Xor8Tab == Tabulate([a \in 0..255 |-> Tabulate([b \in 0..255 |-> XorN(a, b)])])

\* a ^ b on uint16_t
Xor16(a, b) ==
  Xor8Tab[a % 256][b % 256] + 256 * Xor8Tab[(a \div 256) % 256][(b \div 256) % 256]

\* a | b on uint8_t
Or8(a, b) == (a + b + Xor8Tab[a][b]) \div 2

\* a & b on uint8_t
And8(a, b) == (a + b - Xor8Tab[a][b]) \div 2

Min(a, b) == IF a < b THEN a ELSE b

\* the least element of a non-empty set of integers
SetMin(S) == CHOOSE x \in S : \A y \in S : x <= y

\* the greatest element of a non-empty set of integers
SetMax(S) == CHOOSE x \in S : \A y \in S : x >= y

\* the elements of a sequence, as a set
Range(sq) == {sq[i] : i \in 1..Len(sq)}

-----------------------------------------------------------------------------
(* common.h / common.cpp                                                   *)

T_4164 == 0
T_41256 == 1
T_41257 == 2
T_4416 == 3
T_4464 == 4
T_514256 == 5
T_514258 == 6
T_514400 == 7
T_514402 == 8
T_411000 == 9
T_4116 == 10
T_4816 == 11
T_4027 == 12
T_4532 == 13
T_3732 == 14

NoType == -1

RamDef(n, dr, r, c, nib, sc) ==
  [name |-> n, delayRows |-> dr, rows |-> r, columns |-> c, nibble |-> nib,
   static |-> sc]

\* struct RAM_Definition ramTypes[], indexed by the T_ numbers
ramTypes ==
  Tabulate([t \in 0..14 |->
     CASE t = 0  -> RamDef("4164", 2, 256, 256, FALSE, FALSE)
       [] t = 1  -> RamDef("41256", 1, 512, 512, FALSE, FALSE)
       [] t = 2  -> RamDef("41257", 0, 512, 512, TRUE, FALSE)
       [] t = 3  -> RamDef("4416", 4, 256, 64, FALSE, FALSE)
       [] t = 4  -> RamDef("4464", 1, 256, 256, FALSE, FALSE)
       [] t = 5  -> RamDef("514256", 2, 512, 512, FALSE, FALSE)
       [] t = 6  -> RamDef("514258", 2, 512, 512, FALSE, TRUE)
       [] t = 7  -> RamDef("514400", 5, 1024, 1024, FALSE, FALSE)
       [] t = 8  -> RamDef("514402", 5, 1024, 1024, FALSE, TRUE)
       [] t = 9  -> RamDef("411000", 1, 1024, 1024, FALSE, FALSE)
       [] t = 10 -> RamDef("4116", 2, 128, 128, FALSE, FALSE)
       [] t = 11 -> RamDef("4816", 2, 128, 128, FALSE, FALSE)
       [] t = 12 -> RamDef("4027", 2, 64, 64, FALSE, FALSE)
       [] t = 13 -> RamDef("4532-L", 1, 128, 256, FALSE, FALSE)
       [] t = 14 -> RamDef("4532-H", 1, 128, 256, FALSE, FALSE)])

\* the table as the 16-pin routines of revision 4.0.6 use it: they test the
\* half-good types T_4532 and T_3732 as full 256 x 256 arrays
ramTypes16 ==
  Tabulate([t \in 0..14 |->
     CASE t = 13 -> RamDef("4532", 1, 256, 256, FALSE, FALSE)
       [] t = 14 -> RamDef("3732", 1, 256, 256, FALSE, FALSE)
       [] OTHER  -> ramTypes[t]])

\* const uint8_t pattern[]
pattern == <<0, 255, 170, 85, 170, 85>>

RECURSIVE countBits(_)
countBits(value) == IF value = 0 THEN 0 ELSE 1 + countBits(value \div 2)

\* lsl / adc: 8-bit rotation to the left
rotate_left(val) == ((val * 2) % 256) + (val \div 128)

\* val rotated n times to the left
RECURSIVE RotN(_, _)
RotN(val, n) == IF n = 0 THEN val ELSE RotN(rotate_left(val), n - 1)

\* a writer that never rotates its pattern byte
RotTabFlat == Tabulate([p \in 1..6 |-> Tabulate([k \in 0..7 |-> pattern[p]])])

\* the pattern byte after k rotations
RotTab == Tabulate([p \in 1..6 |-> Tabulate([k \in 0..7 |-> RotN(pattern[p], k)])])

\* (uint8_t)(v ^ (v >> 8))
MixFold(v) == Xor8Tab[v % 256][(v \div 256) % 256]

mix8(col, r) == MixFold(Xor16(col, (r + (r \div 16)) % 65536))

RECURSIVE lfsrRun(_, _)
lfsrRun(lfsr, j) ==
  IF j = 0 THEN lfsr
  ELSE lfsrRun(Xor16(lfsr \div 2, IF lfsr % 2 = 1 THEN 46080 ELSE 0), j - 1)

\* a table of whole bytes: the register folded but not cut to its low nibble
Fold8(lfsr) == Xor16(lfsr, lfsr \div 256) % 256

\* the byte that generateRandomTable() stores for the register value lfsr
Fold4(lfsr) == Xor16(lfsr, lfsr \div 256) % 16

\* randomTable after generateRandomTable()
generateRandomTable ==
  Tabulate([i \in 0..255 |-> Fold4(lfsrRun(Xor16(44257, (i * 61) % 65536), 8))])

\* an inversion that leaves the table as it is
keepRandomTable(tab) == tab

invertRandomTable(tab) == Tabulate([i \in 0..255 |-> Xor8Tab[tab[i] % 16][15]])

\* randomTable as it stands after n calls of invertRandomTable()
Tables ==
  Tabulate([n \in 0..1 |->
              IF n = 0 THEN generateRandomTable
              ELSE invertRandomTable(generateRandomTable)])

TableAt(n) == Tables[n % 2]


\* revision 3.1.1 keeps the table as a literal of 256 nibbles; entry i of the
\* sequence below is randomTable[i - 1] of the source
randomTable311 ==
  << 11, 12,  4, 12, 15,  1, 14, 15, 12, 10,  4,  0,  9,  8, 12, 10,
     13, 14,  0, 14, 10, 15, 13,  6, 14,  9, 12, 11, 12,  7,  1, 12,
     14,  8,  1, 14,  3, 15, 12,  5,  7,  9,  3,  4,  4, 13, 14,  1,
      5,  6,  0,  3, 12,  3,  8,  0, 10,  8,  2,  7,  7,  3,  2,  1,
     11,  7,  3,  4, 12,  9,  5,  2,  6, 15,  3,  6,  2,  4,  7, 12,
      9,  3,  0,  0, 11,  5,  5,  2,  8, 10,  6, 13, 12, 14,  5,  3,
      4,  8,  7, 14, 11,  6, 13, 11,  8,  1,  5,  8,  0,  3, 12, 13,
      0,  0, 14,  7,  1,  9, 11,  7, 13,  4, 14,  0,  6,  8, 12, 10,
     10, 12, 15,  8, 13,  7, 13,  7,  4, 15, 14,  2,  4,  3, 14,  3,
      5, 14,  6,  0, 12,  1,  4,  9, 15,  0, 15, 10,  3, 13,  8,  0,
      7,  0, 14,  7, 12,  5,  2,  2,  3, 13, 14,  6,  4,  4,  6,  2,
     10,  3, 11,  5,  3, 11,  5,  5,  2,  9,  0,  5, 14, 14, 12, 10,
      7,  8,  0, 13,  7,  5,  7,  2, 15,  6,  6,  4,  2,  1,  6,  2,
     15,  8,  2, 10,  0,  1,  2,  0,  8,  8, 11,  6,  3,  6,  3,  4,
      3,  3, 15,  1,  8,  7,  7, 15,  9,  6,  5, 14, 15, 13,  1, 15,
     13,  0,  7,  2, 10,  4, 12, 14,  3, 14,  8,  7, 14,  2, 11,  5 >>

\* randomizeData() of revision 3.1.1 applied to the table tab (1-based)
randomizeData(tab) == [i \in 1..256 |-> Xor8Tab[tab[i] % 16][15]]
-----------------------------------------------------------------------------
(* The simulated DRAM chip                                                 *)
(*                                                                         *)
(* A chip is a record: pin (the wiring it answers to, "none" for an empty  *)
(* socket), rows and cols (the physical array), cshift (address pins below *)
(* the lowest column bit), mask (1 for a one-bit chip, 15 for a four-bit   *)
(* chip), float (what the tester reads when no chip drives the data        *)
(* lines), pu (the content of a cell that was never written), sab (a stuck *)
(* address bit), bad (stuck or weak cell regions), cbr (the internal       *)
(* refresh counter works), sc (static column mode), cs (address pin A6 is  *)
(* a chip select at CAS time) and adapter (the chip sits on the 4116       *)
(* adapter board).                                                         *)

NoSab == [on |-> "no", b |-> 0, v |-> 0]

\* address bit b reads v: in the row address (on = "row"), in the column
\* address (on = "col") or on the shared pin (on = "pin")
StuckBit(on, b, v) == [on |-> on, b |-> b, v |-> v]

\* a region of cells that read v: always (weak = FALSE) or once the data
\* has waited for a deferred read-back (weak = TRUE)
Region(r0, r1, c0, c1, v, weak) ==
  [r0 |-> r0, r1 |-> r1, c0 |-> c0, c1 |-> c1, v |-> v, weak |-> weak]

Chip(pin, rows, cols, cshift, mask, float) ==
  [pin |-> pin, rows |-> rows, cols |-> cols, cshift |-> cshift, mask |-> mask,
   float |-> float, pu |-> 0, sab |-> NoSab, bad |-> {}, cbr |-> TRUE,
   sc |-> FALSE, cs |-> FALSE, adapter |-> FALSE]

\* the address the chip latches for the address a on its pins
Latched(sab, on, a) ==
  IF sab.on = on \/ sab.on = "pin" THEN WithBit(a, sab.b, sab.v) ELSE a

\* the row the chip decodes for the row address a on its pins
PhysRow(ch, a) == Latched(ch.sab, "row", a) % ch.rows

\* the column the chip decodes for the column address a on its pins
PhysCol(ch, a) == Latched(ch.sab, "col", a \div Pow2(ch.cshift)) % ch.cols

\* the chip is deselected in a CAS cycle with column address a on its pins
Deselected(ch, a) == ch.cs /\ BitOf(a, 6) = 1

\* region f acts on a read of the cell x = <<row, column>>
Covers(f, x, deferred) ==
  /\ f.r0 <= x[1] /\ x[1] <= f.r1
  /\ f.c0 <= x[2] /\ x[2] <= f.c1
  /\ f.weak => deferred

\* the regions of the chip that act on a read of row pr
RowFaults(ch, pr, deferred) ==
  {f \in ch.bad : f.r0 <= pr /\ pr <= f.r1 /\ (f.weak => deferred)}

\* a page-mode row write: the routine w, its pattern number, its row
\* argument, the number of table inversions before it and the shift of its
\* column addresses
Wr(w, p, r, inv, sh) == [w |-> w, pat |-> p, lrow |-> r, inv |-> inv, sh |-> sh]

NoWr == Wr("none", 0, 0, 0, 0)

-----------------------------------------------------------------------------
(* The chips put into the socket                                           *)

NoChip(float) == Chip("none", 1, 1, 0, 1, float)

Good16(n) == Chip("16", n, n, 0, 1, 0)

\* the one-bit chips with one stuck address bit
Stuck16 ==
  {[Good16(n) EXCEPT !.sab = StuckBit(on, b, v)] :
     n \in {128, 256, 512}, on \in {"row", "col", "pin"}, b \in 0..8, v \in {0, 1}}

Chips16 ==
  { NoChip(0), NoChip(1),
    Good16(128),
    Good16(256),
    Good16(512),
    [Good16(256) EXCEPT !.bad = {Region(0, 255, 128, 255, 1, FALSE)}],
    [Good16(256) EXCEPT !.bad = {Region(0, 255, 128, 255, 0, FALSE)}],
    [Good16(256) EXCEPT !.bad = {Region(1, 1, 5, 5, 1, FALSE),
                                 Region(1, 1, 200, 200, 1, FALSE)}],
    [Good16(128) EXCEPT !.bad = {Region(100, 100, 7, 7, 0, TRUE)}],
    [Good16(128) EXCEPT !.bad = {Region(3, 3, 9, 9, 1, FALSE)}],
    [Good16(512) EXCEPT !.cbr = FALSE] }
  \cup {c \in Stuck16 : c.sab.b < countBits(c.rows - 1)}

-----------------------------------------------------------------------------
(* 16-pin family: address translation                                      *)

GET_PB(a) == 16 * BitOf(a, 4) + 4 * BitOf(a, 3) + BitOf(a, 6)
GET_PC(a) == 16 * BitOf(a, 0) + BitOf(a, 8)
GET_PD(a) == 64 * BitOf(a, 7) + 128 * BitOf(a, 5) + BitOf(a, 2) + 2 * BitOf(a, 1)

\* the address the chip sees for the address bits of PORTB, PORTC, PORTD:
\* A0 = PC4, A1 = PD1, A2 = PD0, A3 = PB2, A4 = PB4, A5 = PD7, A6 = PB0,
\* A7 = PD6, A8 = PC0
PinAddr16(pb, pc_, pd) ==
  BitOf(pc_, 4) + 2 * BitOf(pd, 1) + 4 * BitOf(pd, 0) + 8 * BitOf(pb, 2)
  + 16 * BitOf(pb, 4) + 32 * BitOf(pd, 7) + 64 * BitOf(pb, 0)
  + 128 * BitOf(pd, 6) + 256 * BitOf(pc_, 0)

\* the address on the chip's pins after setAddr16_Random(a): the port values
\* are the OR of the low (a & 0x1F) and high (a >> 5) table entries
setAddr16_Random(a) ==
  PinAddr16(Or8(GET_PB(a % 32), GET_PB(32 * ((a \div 32) % 16))),
            Or8(GET_PC(a % 32), GET_PC(32 * ((a \div 32) % 16))),
            Or8(GET_PD(a % 32), GET_PD(32 * ((a \div 32) % 16))))

\* revision 3.0.1: one entry of the monolithic table, <<portb, portc, portd>>
MAP_COMBINED(a) ==
  << 16 * BitOf(a, 4) + 4 * BitOf(a, 3) + BitOf(a, 6),
     16 * BitOf(a, 0) + BitOf(a, 8),
     64 * BitOf(a, 7) + 128 * BitOf(a, 5) + BitOf(a, 2) + 2 * BitOf(a, 1) >>

\* lut_combined[512] = { GEN512_COMBINED }
lut_combined == Tabulate([a \in 0..511 |-> MAP_COMBINED(a)])

\* lut_16_low_b/c/d[32] = { ROW32(0) }, entry i as <<b, c, d>>
lut_16_low == Tabulate([i \in 0..31 |-> <<GET_PB(i), GET_PC(i), GET_PD(i)>>])

\* high tables with the entries of the addresses 0, 16, ..., 240
lut_16_highStep16 ==
  Tabulate([i \in 0..15 |-> <<GET_PB(16 * i), GET_PC(16 * i), GET_PD(16 * i)>>])

\* lut_16_high_b/c/d[16] = { GET_P*(0), GET_P*(32), ..., GET_P*(480) }
lut_16_high ==
  Tabulate([i \in 0..15 |-> <<GET_PB(32 * i), GET_PC(32 * i), GET_PD(32 * i)>>])

\* the address bits setAddr16_Random(a) puts on PORTB, PORTC, PORTD
setAddr16_Ports(a) ==
  [p \in 1..3 |-> Or8(lut_16_low[a % 32][p], lut_16_high[(a \div 32) % 16][p])]

Addr16Tab == Tabulate([a \in 0..511 |-> setAddr16_Random(a)])

\* the logical address whose port values put a on the chip's pins
Inv16Tab == Tabulate([a \in 0..511 |-> CHOOSE l \in 0..511 : Addr16Tab[l] = a])

\* fastPatternTest_16Pin: the local tables pd_lut, pb_addr and pc_r (address
\* bits only)
pd_lut == Tabulate([i \in 0..15 |-> (i % 4) + 16 * (i - (i % 4))])
pb_addr == Tabulate([i \in 0..7 |-> BitOf(i, 0) + 4 * BitOf(i, 1) + 16 * BitOf(i, 2)])
pc_r == <<0, 16, 1, 17>>

\* fastPatternTest_16Pin visits the columns of a row in port order; p counts
\* the CAS cycles of the row: p = 128 * pc_i + 16 * pb_i + pd_i
FastCol16(p) ==
  PinAddr16(pb_addr[(p \div 16) % 8], pc_r[(p \div 128) + 1], pd_lut[p % 16])

FastColTab == Tabulate([p \in 0..511 |-> FastCol16(p)])

\* the CAS cycle of fastPatternTest_16Pin that addresses column a
FastPosTab == Tabulate([a \in 0..511 |-> CHOOSE p \in 0..511 : FastColTab[p] = a])

\* writeRow_16Pin / checkRow_16Pin visit the columns chunk by chunk, inside
\* a chunk from c = 31 down to 0; k counts the CAS cycles of the row
RandLogCol16(k) == 32 * (k \div 32) + (31 - (k % 32))

\* fastPatternTest_16Pin: din_a0_0 and din_a0_1 as the levels of pattern
\* pat_nr for the columns with A0 = 0 and A0 = 1
FastDin16(pat_nr, a0) ==
  IF a0 = 0 \/ pat_nr <= 1 THEN BitOf(pattern[pat_nr + 1], 2)
  ELSE BitOf(rotate_left(pattern[pat_nr + 1]), 2)

-----------------------------------------------------------------------------
(* Chip contents                                                           *)
(*                                                                         *)
(* cells holds the cells written one at a time (write16Pin and the like),  *)
(* rowTag says for each physical row which page-mode row write filled it   *)
(* last; the data of such a row is recomputed from the tag the way the     *)
(* writing routine computed it. A page-mode write replaces the cells of    *)
(* its row. Page-mode writes and read-backs of a row use the same column   *)
(* addresses, each of which selects a column of its own.                   *)

\* get_test_bit(col, r), as the level of the data line
get_test_bit(tab, col, r) ==
  BitOf(tab[(((col + 16 * r) % 1024) \div 4) % 256],
        CASE (col + 16 * r) % 4 = 0 -> 2
          [] (col + 16 * r) % 4 = 1 -> 3
          [] (col + 16 * r) % 4 = 2 -> 1
          [] OTHER -> 0)

\* the data lines of a wiring, as a mask
ViaMask(via) == IF via = "18" \/ via = "20" THEN 15 ELSE 1

\* the address on the chip's pins for the address a of a routine
PinAddr(via, a) ==
  CASE via = "16" -> Addr16Tab[a % 512]
    [] via = "18" -> a % 256
    [] via = "4116" -> a % 256
    [] OTHER -> a % 1024

\* the column address on the chip's pins in CAS cycle k of a page-mode
\* write or read-back of the kind d.w
ColAt(d, k) ==
  CASE d.w = "fast16" -> FastColTab[k]
    [] d.w \in {"rand16", "fix16", "rot16"} -> Addr16Tab[RandLogCol16(k)]
    [] OTHER -> ((k * Pow2(d.sh)) % 256) + (256 * (k \div 256))

\* the cycle of such a write with the column address a on the chip's pins
CycleAt(d, a) ==
  CASE d.w = "fast16" -> FastPosTab[a]
    [] d.w \in {"rand16", "fix16", "rot16"} -> RandLogCol16(Inv16Tab[a])
    [] OTHER -> a \div Pow2(d.sh)

\* the data the row write d drives in its CAS cycle k, with the table tab
WriteData(d, tab, k) ==
  CASE d.w = "fast16" -> FastDin16(d.pat, (k \div 128) % 2)
    [] d.w = "rand16" -> BitOf(tab[mix8(RandLogCol16(k), d.lrow)], 2)
    [] d.w = "fix16" -> BitOf(pattern[d.pat + 1], 2)
    [] d.w = "rot16" -> BitOf(RotTab[d.pat + 1][k % 8], 2)
    [] d.w = "pat18" -> pattern[d.pat + 1] % 16
    [] d.w = "rand18" -> tab[mix8(k, d.lrow)]
    [] d.w = "fix18a" -> BitOf(pattern[d.pat + 1], 3)
    [] d.w = "rot18a" -> BitOf(RotTab[d.pat + 1][k % 8], 3)
    [] d.w = "rand18a" -> BitOf(tab[mix8(k, d.lrow)], 3)
    [] d.w = "fast20" -> pattern[d.pat + 1] % 16
    [] d.w = "rand20" -> tab[mix8(k % 256, d.lrow)]
    [] d.w = "fix4116" -> pattern[d.pat + 1] % 2
    [] d.w = "rot4116" -> RotTab[d.pat + 1][k % 8] % 2
    [] d.w = "rand4116" -> get_test_bit(tab, k, d.lrow)

\* a read-back that expects the random data of the row below
ExpectDataNextRow(d, tab, k) ==
  IF d.pat >= 4 THEN WriteData([d EXCEPT !.lrow = (d.lrow + 1) % 256], tab, k)
  ELSE WriteData(d, tab, k)

\* a read-back of the 18-pin patterns that compares with the whole pattern
\* byte, not with its low nibble
ExpectDataNoMask(d, tab, k) ==
  IF d.w = "pat18" THEN pattern[d.pat + 1] ELSE WriteData(d, tab, k)

\* the data the read-back of the row write d expects in its CAS cycle k,
\* with the table tab
ExpectData(d, tab, k) ==
  CASE d.w = "fast16" -> FastDin16(d.pat, (k \div 128) % 2)
    [] d.w = "rand16" -> BitOf(tab[mix8(RandLogCol16(k), d.lrow)], 2)
    [] d.w = "fix16" -> BitOf(pattern[d.pat + 1], 2)
    [] d.w = "rot16" -> BitOf(RotTab[d.pat + 1][k % 8], 2)
    [] d.w = "pat18" -> pattern[d.pat + 1] % 16
    [] d.w = "rand18" -> tab[mix8(k, d.lrow)]
    [] d.w = "fix18a" -> BitOf(pattern[d.pat + 1], 3)
    [] d.w = "rot18a" -> BitOf(RotTab[d.pat + 1][k % 8], 3)
    [] d.w = "rand18a" -> BitOf(tab[mix8(k, d.lrow)], 3)
    [] d.w = "fast20" -> pattern[d.pat + 1] % 16
    [] d.w = "rand20" -> tab[mix8(k % 256, d.lrow)]
    [] d.w = "fix4116" -> pattern[d.pat + 1] % 2
    [] d.w = "rot4116" -> RotTab[d.pat + 1][k % 8] % 2
    [] d.w = "rand4116" -> get_test_bit(tab, k, d.lrow)

\* the data that the row write tag left in the cell with the column address
\* a on the chip's pins
DataAt(tag, a, pu) ==
  IF tag.w = "none" THEN pu
  ELSE WriteData(tag, TableAt(tag.inv), CycleAt(tag, a))

\* the value of the region of F that covers column pcl, -1 if there is none
FaultAt(F, pcl) ==
  IF \E f \in F : f.c0 <= pcl /\ pcl <= f.c1
  THEN (CHOOSE f \in F : f.c0 <= pcl /\ pcl <= f.c1).v
  ELSE -1

\* what the tester reads in a CAS cycle with column address a on the pins of
\* a row with the faults F, the cells cs and the row write tag
Driven(ch, fv, cs, x, tag, a) ==
  IF Deselected(ch, a) THEN ch.float % (ch.mask + 1)
  ELSE IF fv >= 0 THEN ch.mask * fv
  ELSE IF x \in DOMAIN cs THEN cs[x]
  ELSE DataAt(tag, a, ch.pu)

\* a single read cycle of the cell x = <<row, column>>
ReadCell(ch, cs, rt, x, a, deferred) ==
  Driven(ch, FaultAt(RowFaults(ch, x[1], deferred), x[2]), cs, x, rt[x[1]], a)

\* cells after one cell of the chip has been written
WriteCell(cs, x, d) == [y \in (DOMAIN cs) \cup {x} |-> IF y = x THEN d ELSE cs[y]]

\* one bus cycle of the single-cell helpers on the wiring via: a write of
\* the data d >= 0, a read (d = -1) or a read with the outputs disabled
\* (d = -2)
Cycle(via, r, c, d) == [via |-> via, r |-> r, c |-> c, d |-> d]

\* the cell a bus cycle selects
CellOf(ch, op) ==
  <<PhysRow(ch, PinAddr(op.via, op.r)), PhysCol(ch, PinAddr(op.via, op.c))>>

\* what the tester reads in a read cycle
ReadCycle(ch, cs, rt, op) ==
  IF op.d = -2 THEN ViaMask(op.via)
  ELSE IF ch.pin # op.via THEN ch.float % (ViaMask(op.via) + 1)
  ELSE ReadCell(ch, cs, rt, CellOf(ch, op), PinAddr(op.via, op.c), FALSE)

\* cells after a write cycle
WriteCycle(ch, cs, op) ==
  IF ch.pin # op.via \/ Deselected(ch, PinAddr(op.via, op.c)) THEN cs
  ELSE WriteCell(cs, CellOf(ch, op), op.d % (ch.mask + 1))

\* the bus cycles ops from the i-th on: the cells after them and the values
\* read, in order
RECURSIVE Bus(_, _, _, _, _, _)
Bus(ch, cs, rt, ops, i, out) ==
  IF i > Len(ops) THEN [cells |-> cs, out |-> out]
  ELSE IF ops[i].d >= 0
  THEN Bus(ch, WriteCycle(ch, cs, ops[i]), rt, ops, i + 1, out)
  ELSE Bus(ch, cs, rt, ops, i + 1, Append(out, ReadCycle(ch, cs, rt, ops[i])))

\* cells after a page-mode write of the rows prs
DropRows(cs, prs) ==
  IF \A x \in DOMAIN cs : x[1] \notin prs THEN cs
  ELSE [x \in {y \in DOMAIN cs : y[1] \notin prs} |-> cs[x]]

\* rowTag after a page-mode write of row pr on the wiring via
PageWrite(ch, rt, via, pr, tag) ==
  IF ch.pin # via THEN rt ELSE [rt EXCEPT ![pr] = tag]

\* cells after the same write
PageDrop(ch, cs, via, pr) == IF ch.pin # via THEN cs ELSE DropRows(cs, {pr})

\* the CAS cycles k of the n cycles of the page-mode read-back d of a row
\* with the row write tag and the faults F whose data differ from the
\* expected data
PageScan(ch, via, tag, F, n, d, tab) ==
  {k \in 0..(n - 1) :
     (IF ch.pin # via THEN ch.float % (ViaMask(via) + 1)
      ELSE Driven(ch, FaultAt(F, PhysCol(ch, ColAt(d, k))), << >>, <<0, 0>>, tag,
                  ColAt(d, k)))
       # ExpectData(d, tab, k)}

\* the row writes with data that do not depend on the row or the table
FixedWrites ==
  {Wr(w, pt, 0, 0, sh) :
     w \in {"fast16", "fix16", "rot16", "pat18", "fix18a", "rot18a", "fast20", "fix4116",
            "rot4116"},
     pt \in 0..3, sh \in 0..1}

\* the cycles of a read-back that differ from the expected data when the
\* row holds what the row write left, for the row writes of FixedWrites
PlainTab ==
  Tabulate([d \in FixedWrites |->
              {k \in 0..1023 :
                 k < (IF d.w \in {"fast16", "fix16", "rot16"} THEN 512 ELSE 1024)
                 /\ DataAt(d, ColAt(d, k), 0) # ExpectData(d, TableAt(0), k)}])

\* the read-back d of a row: the cycles that differ. A row without faults
\* that holds the row write d needs no scan: a fixed pattern differs where
\* PlainTab says, random data are read back as they were computed.
RowScan(ch, via, tag, F, n, d, tab) ==
  IF ch.pin = via /\ F = {} /\ ~ch.cs /\ tag = d /\ tab = TableAt(d.inv)
  THEN (IF d.pat >= 4 THEN {}
        ELSE {k \in PlainTab[[d EXCEPT !.lrow = 0, !.inv = 0]] : k < n})
  ELSE PageScan(ch, via, tag, F, n, d, tab)

-----------------------------------------------------------------------------
(* Control flow shared by the family routines                              *)

memVars == <<cells, rowTag>>
halfVars == <<error_in_lower_half, error_in_upper_half, chip_half_status>>
loopVars == <<bitIdx, patNr, row>>
tableVars == <<invCount, randomTable>>
histVars == <<written, checked>>
ledVars == <<led, blinks>>
errVars == <<ecode, ekind, erow, ecol>>
fixVars == <<family, chip, rev, ports, ip>>

\* a call error(code, kind, r, c): the run continues inside error()
RaiseAt(code, kind, r, c) ==
  /\ pc' = "error"
  /\ ecode' = code
  /\ ekind' = kind
  /\ erow' = r
  /\ ecol' = c

\* a call of error() that passes kind 0 whatever the failure
RaiseKind0(code, kind) == RaiseAt(code, 0, -1, -1)

\* a call error(code, kind): row and col take their default, -1
Raise(code, kind) == RaiseAt(code, kind, -1, -1)

\* the run goes on at position p
Goto(p) ==
  /\ pc' = p
  /\ UNCHANGED errVars

Ev(op, r) == [op |-> op, r |-> r]

\* a writeRow call that reads back the row it has just written
RetentionRowsNoDelay(r, last_row, delayRows) == <<r>>

\* a catch-up loop that counts the trailing rows downwards
RetentionRowsDescending(r, last_row, delayRows) ==
  IF r = last_row THEN [i \in 1..(delayRows + 1) |-> r - i + 1]
  ELSE IF r >= delayRows THEN <<r - delayRows>>
  ELSE <<>>

\* a last row that reads back the one row that is due and not the rows
\* after it
RetentionRowsNoCatchUp(r, last_row, delayRows) ==
  IF r >= delayRows THEN <<r - delayRows>> ELSE <<>>

\* a last row that reads back one row more than are due
RetentionRowsOneMore(r, last_row, delayRows) ==
  IF r = last_row THEN [i \in 1..(delayRows + 2) |-> r - delayRows + i - 2]
  ELSE IF r >= delayRows THEN <<r - delayRows>>
  ELSE <<>>

\* the deferred read-back with no test of row >= delayRows
RetentionRowsUnderflow(r, last_row, delayRows) ==
  IF r = last_row THEN [i \in 1..(delayRows + 1) |-> r - delayRows + i - 1]
  ELSE <<r - delayRows>>

\* the rows a writeRow call for row r reads back after its write, in order
RetentionRows(r, last_row, delayRows) ==
  IF r = last_row THEN [i \in 1..(delayRows + 1) |-> r - delayRows + i - 1]
  ELSE IF r >= delayRows THEN <<r - delayRows>>
  ELSE <<>>

\* uint8_t delays[6]: the number of entries of ramTypes[type].delays
DelayCount == 6

\* the indices into ramTypes[type].delays that a writeRow call for row r
\* passes to delayMicroseconds, in order
DelayIndex(r, last_row, delayRows) ==
  IF r = last_row THEN [i \in 1..(delayRows + 1) |-> delayRows]
  ELSE IF r >= delayRows THEN <<delayRows>>
  ELSE <<r>>

-----------------------------------------------------------------------------
(* 16-pin family: presence and type sensing                                *)

write16Pin(r, c, data) == Cycle("16", r, c, IF data # 0 THEN 1 ELSE 0)

read16Pin(r, c) == Cycle("16", r, c, -1)

\* a stage that goes on whatever it found
FoundAnyway(ok, next) == Goto(next)

\* the position after a stage: error(0, 0) if the stage found no chip
Found(ok, next) == IF ok THEN Goto(next) ELSE Raise(0, 0)

ram_present_16Pin ==
  /\ family = "16"
  /\ pc = "present"
  /\ \E res \in {Bus(chip, cells, rowTag,
                     <<write16Pin(0, 0, 0), write16Pin(1, 0, 1), read16Pin(0, 0),
                       read16Pin(1, 0), read16Pin(0, 0)>>, 1, <<>>)} :
       /\ cells' = res.cells
       /\ Found(res.out = <<0, 1, 0>>, "sense")
  /\ ev' = <<>>
  /\ UNCHANGED <<fixVars, interrupts, type, rowTag, halfVars, loopVars, tableVars,
                 typeSuffix, shown, ledVars, histVars>>

\* a decision tree that takes the aliasing of A8 for a working A8
SenseType16A8Inverted(a8, rowA7, colA7) == IF a8 = <<0>> THEN T_4164 ELSE T_41256

\* a decision tree with the 4532 and the 4816 swapped
SenseType16Swapped(a8, rowA7, colA7) ==
  IF a8 = <<0>> THEN T_41256
  ELSE IF rowA7 = <<0>> THEN T_4164
  ELSE IF colA7 = <<0>> THEN T_4816
  ELSE T_4532

\* sense41256_16Pin: the type for the values read by its probes of A8, of
\* row A7 and of column A7 (<<>> for a probe the routine did not reach)
SenseType16(a8, rowA7, colA7) ==
  IF a8 = <<0>> THEN T_41256
  ELSE IF rowA7 = <<0>> THEN T_4164
  ELSE IF colA7 = <<0>> THEN T_4532
  ELSE T_4816

\* sense41256_16Pin: the first check of cell (0, 0) and, if that fails, of
\* cell (0, 192)
sense41256_16Pin_check ==
  /\ family = "16"
  /\ pc = "sense"
  /\ \E one \in {Bus(chip, cells, rowTag,
                     <<write16Pin(0, 0, 0), read16Pin(0, 0)>>, 1, <<>>)} :
       IF one.out[1] = 0
       THEN cells' = one.cells /\ Goto("senseA8")
       ELSE \E two \in {Bus(chip, one.cells, rowTag,
                            <<write16Pin(0, 192, 0), read16Pin(0, 192)>>, 1, <<>>)} :
              /\ cells' = two.cells
              /\ Found(two.out[1] = 0, "senseA8")
  /\ ev' = <<>>
  /\ UNCHANGED <<fixVars, interrupts, type, rowTag, halfVars, loopVars, tableVars,
                 typeSuffix, shown, ledVars, histVars>>

\* a probe that does not write the base cell before it writes the peer
Probe16KeepsBase(r, c) == <<write16Pin(r, c, 1), write16Pin(r, c, 1), read16Pin(0, 0)>>

\* sense41256_16Pin: one probe, with the peer at row r, column c:
\* write16Pin(0, 0, 0); write16Pin(r, c, 1); read16Pin(0, 0)
Probe16(r, c) == <<write16Pin(0, 0, 0), write16Pin(r, c, 1), read16Pin(0, 0)>>

\* sense41256_16Pin: the probes of A8, row A7 and column A7
sense41256_16Pin ==
  /\ family = "16"
  /\ pc = "senseA8"
  /\ \E a8 \in {Bus(chip, cells, rowTag, Probe16(256, 0), 1, <<>>)} :
     \E r7 \in {Bus(chip, a8.cells, rowTag,
                    IF a8.out = <<0>> THEN <<>> ELSE Probe16(128, 0), 1, <<>>)} :
     \E c7 \in {Bus(chip, r7.cells, rowTag,
                    IF a8.out = <<0>> \/ r7.out = <<0>> THEN <<>> ELSE Probe16(0, 128),
                    1, <<>>)} :
       /\ cells' = c7.cells
       /\ type' = SenseType16(a8.out, r7.out, c7.out)
       /\ Goto(IF a8.out = <<0>> THEN "detect41257" ELSE "writeRAMType")
  /\ ev' = <<>>
  /\ UNCHANGED <<fixVars, interrupts, rowTag, halfVars, loopVars, tableVars, typeSuffix,
                 shown, ledVars, histVars>>

\* the column a chip selects at the k-th CAS pulse that follows a column
\* address a without a new address; the chips in the socket are page-mode
\* chips and select the same column again
NibbleCol(a, k) == a

detect41257_16Pin ==
  /\ family = "16"
  /\ pc = "detect41257"
  /\ \E res \in {Bus(chip, cells, rowTag,
                     <<write16Pin(0, 0, 0), write16Pin(0, 256, 0),
                       write16Pin(256, 0, 0), write16Pin(256, 256, 0),
                       write16Pin(0, NibbleCol(0, 0), 1), write16Pin(0, NibbleCol(0, 1), 0),
                       write16Pin(0, NibbleCol(0, 2), 1), write16Pin(0, NibbleCol(0, 3), 0),
                       read16Pin(0, NibbleCol(0, 0)), read16Pin(0, NibbleCol(0, 1)),
                       read16Pin(0, NibbleCol(0, 2)), read16Pin(0, NibbleCol(0, 3))>>,
                     1, <<>>)} :
       /\ cells' = res.cells
       /\ type' = IF res.out = <<1, 0, 1, 0>> THEN T_41257 ELSE type
  /\ Goto("writeRAMType")
  /\ ev' = <<>>
  /\ UNCHANGED <<fixVars, interrupts, rowTag, halfVars, loopVars, tableVars, typeSuffix,
                 shown, ledVars, histVars>>

\* a display routine that leaves the pattern counter changed
writeRAMType_16PinCounts ==
  /\ family = "16"
  /\ pc = "writeRAMType"
  /\ shown' = IF type = T_4164 THEN "4164/3732(?)" ELSE ramTypes16[type].name
  /\ bitIdx' = 0
  /\ patNr' = patNr + 1
  /\ Goto("addrRow")
  /\ ev' = <<>>
  /\ UNCHANGED <<fixVars, interrupts, type, memVars, halfVars, row, tableVars,
                 typeSuffix, ledVars, histVars>>

\* test_16Pin: the text put on the display
writeRAMType_16Pin ==
  /\ family = "16"
  /\ pc = "writeRAMType"
  /\ shown' = IF type = T_4164 THEN "4164/3732(?)" ELSE ramTypes16[type].name
  /\ bitIdx' = 0
  /\ Goto("addrRow")
  /\ ev' = <<>>
  /\ UNCHANGED <<fixVars, interrupts, type, memVars, halfVars, patNr, row, tableVars,
                 typeSuffix, ledVars, histVars>>

-----------------------------------------------------------------------------
(* Address-line verifiers                                                  *)

\* number of address bits of a dimension with n addresses
AddrBits(n) == countBits(n - 1)

\* peer address of bit b
PeerAddr(b) == Pow2(b)

\* a row code that is off by one
RowCodeNext(b) == b + 1

\* code of a failing row probe of bit b
RowCode(b) == b

\* a column code without the offset
ColCodeNoOffset(b) == b

\* code of a failing column probe of bit b
ColCode(b) == b + 16

\* the step of a verifier loop after the probe of bit b of n: error(code, 1)
\* if the probe failed, the next bit, or the position after the loop
Probed(failed, code, b, n, again, after) ==
  IF failed THEN Raise(code, 1) /\ bitIdx' = b
  ELSE IF b + 1 < n THEN Goto(again) /\ bitIdx' = b + 1
  ELSE Goto(after) /\ bitIdx' = 0

\* checkAddressing_16Pin: one pass of the row loop, b = bitIdx
checkAddressing_16Pin_row ==
  /\ family = "16"
  /\ pc = "addrRow"
  /\ \E res \in {Bus(chip, cells, rowTag,
                     <<write16Pin(0, 0, 0), write16Pin(PeerAddr(bitIdx), 0, 1),
                       read16Pin(0, 0), read16Pin(PeerAddr(bitIdx), 0)>>, 1, <<>>)} :
       /\ cells' = res.cells
       /\ Probed(~(type = T_4532 /\ bitIdx = 7) /\ res.out # <<0, 1>>,
                 RowCode(bitIdx), bitIdx, AddrBits(ramTypes16[type].rows),
                 "addrRow", "addrCol")
  /\ ev' = <<>>
  /\ UNCHANGED <<fixVars, interrupts, type, rowTag, halfVars, patNr, row, tableVars,
                 typeSuffix, shown, ledVars, histVars>>

\* checkAddressing_16Pin: one pass of the column loop, b = bitIdx
checkAddressing_16Pin_col ==
  /\ family = "16"
  /\ pc = "addrCol"
  /\ \E test_row \in {ramTypes16[type].rows \div 2} :
     \E res \in {Bus(chip, cells, rowTag,
                     <<write16Pin(test_row, 0, 0), write16Pin(test_row, PeerAddr(bitIdx), 1),
                       read16Pin(test_row, 0), read16Pin(test_row, PeerAddr(bitIdx))>>,
                     1, <<>>)} :
       /\ cells' = res.cells
       /\ Probed(res.out # <<0, 1>>, ColCode(bitIdx), bitIdx,
                 AddrBits(ramTypes16[type].columns), "addrCol", "runTests")
  /\ ev' = <<>>
  /\ UNCHANGED <<fixVars, interrupts, type, rowTag, halfVars, patNr, row, tableVars,
                 typeSuffix, shown, ledVars, histVars>>

-----------------------------------------------------------------------------
(* 16-pin family: pattern passes                                           *)

\* a heuristic that takes the 4816 for a half-good candidate as well
HalfGoodTypeWith4816(t) == t = T_4164 \/ t = T_4532 \/ t = T_3732 \/ t = T_4816

\* the types whose mismatches are tracked per half instead of reported
HalfGoodType(t) == t = T_4164 \/ t = T_4532 \/ t = T_3732

\* a mismatch that is swallowed until both row halves show one
SwallowedRowsOnly(t, lo, up) == HalfGoodType(t) /\ And8(And8(lo, up), 1) # 1

\* the mismatch is swallowed: the flags do not show both halves in both
\* dimensions
Swallowed(t, lo, up) == HalfGoodType(t) /\ And8(And8(lo, up), 3) # 3

\* run_16Pin_tests: entry
run_16Pin_tests_begin ==
  /\ family = "16"
  /\ pc = "runTests"
  /\ error_in_lower_half' = 0
  /\ error_in_upper_half' = 0
  /\ chip_half_status' = chip_half_status
  /\ patNr' = 0
  /\ row' = 0
  /\ written' = {}
  /\ checked' = {}
  /\ Goto("fast")
  /\ ev' = <<>>
  /\ UNCHANGED <<fixVars, interrupts, type, memVars, bitIdx, tableVars, typeSuffix, shown,
                 ledVars>>

\* fastPatternTest_16Pin: the read phase of one row. M is the set of CAS
\* cycles whose DOUT differs from exp; the loop handles them in ascending
\* order, sets the half flags at each and leaves with error() at the first
\* one that is not swallowed.
FastScan16(M, n, lo0, up0, r, t) ==
  LET MLo == {p \in M : BitOf(pd_lut[p % 16], 6) = 0}
      fLo == IF MLo = {} THEN n + 1 ELSE SetMin(MLo)
      fUp == IF M \ MLo = {} THEN n + 1 ELSE SetMin(M \ MLo)
      LoAt(p) == Or8(Or8(lo0, IF r >= 128 THEN 0 ELSE 1), IF fLo <= p THEN 2 ELSE 0)
      UpAt(p) == Or8(Or8(up0, IF r >= 128 THEN 1 ELSE 0), IF fUp <= p THEN 2 ELSE 0)
      E == {p \in M : ~Swallowed(t, LoAt(p), UpAt(p))}
  IN  IF M = {} THEN [lo |-> lo0, up |-> up0, hit |-> FALSE]
      ELSE IF E = {} THEN [lo |-> LoAt(n), up |-> UpAt(n), hit |-> FALSE]
      ELSE [lo |-> LoAt(SetMin(E)), up |-> UpAt(SetMin(E)), hit |-> TRUE]

\* a pattern loop that skips a pattern
NextPatSkip(p) == p + 2

\* the pattern loop of a family routine after the last row of pass p
NextPat(p) == p + 1

\* the row operations of a writeRow call for row r that made the first done
\* of the read-backs rs
RowEvents(r, rs, done) == <<Ev("W", r)>> \o [i \in 1..done |-> Ev("C", rs[i])]

\* the rows written in the current pass once row r is written
Written(r) == (IF r = 0 THEN {} ELSE written) \cup {r}

\* the rows read back in the current pass once the first done of rs are
Checked(r, rs, done) == (IF r = 0 THEN {} ELSE checked) \cup {rs[i] : i \in 1..done}

\* the step of the row loop after the writeRow call for row r: error(), the
\* next row, the next pass (after invertRandomTable() if it is pass 5), or
\* the position after the pattern loop
RowStep(hit, code, kind, at, r, total_rows, after) ==
  IF hit THEN RaiseAt(code, kind, at[1], at[2]) /\ UNCHANGED <<patNr, row>>
  ELSE IF r + 1 < total_rows THEN Goto("rows") /\ row' = r + 1 /\ patNr' = patNr
  ELSE IF patNr < 5
  THEN Goto(IF NextPat(patNr) = 5 THEN "invert" ELSE "rows")
       /\ row' = 0 /\ patNr' = NextPat(patNr)
  ELSE Goto(after) /\ UNCHANGED <<patNr, row>>

\* fastPatternTest_16Pin: one pass of the row loop (write phase, read phase)
\* and, after the last row, the step of the pattern loop of run_16Pin_tests.
\* The routine runs its row loop between one cli() and one sei().
fastPatternTest_16Pin ==
  /\ family = "16"
  /\ pc = "fast"
  /\ \E pr \in {PhysRow(chip, PinAddr("16", row))} :
     \E tag \in {Wr("fast16", patNr, row, invCount, 0)} :
     \E n \in {IF ramTypes16[type].columns > 256 THEN 512 ELSE 256} :
     \E res \in {FastScan16(RowScan(chip, "16", tag, RowFaults(chip, pr, FALSE), n, tag,
                                    randomTable), n,
                            error_in_lower_half, error_in_upper_half, row, type)} :
       /\ rowTag' = PageWrite(chip, rowTag, "16", pr, tag)
       /\ cells' = PageDrop(chip, cells, "16", pr)
       /\ error_in_lower_half' = res.lo
       /\ error_in_upper_half' = res.up
       /\ chip_half_status' = chip_half_status
       /\ IF res.hit
          THEN Raise(patNr + 1, 2) /\ interrupts' = TRUE /\ UNCHANGED <<patNr, row>>
          ELSE IF row + 1 < ramTypes16[type].rows
          THEN /\ Goto("fast")
               /\ row' = row + 1
               /\ patNr' = patNr
               /\ interrupts' = FALSE
          ELSE /\ Goto(IF NextPat(patNr) < 4 THEN "fast" ELSE "rows")
               /\ row' = 0
               /\ patNr' = NextPat(patNr)
               /\ interrupts' = TRUE
  /\ written' = Written(row)
  /\ checked' = Checked(row, <<row>>, 1)
  /\ ev' = <<Ev("W", row), Ev("C", row)>>
  /\ UNCHANGED <<fixVars, type, bitIdx, tableVars, typeSuffix, shown, ledVars>>

\* a flag that is assigned instead of accumulated
LowerFlagAssigned(lo0, r, ec) ==
  Or8(IF r >= 128 THEN 0 ELSE 1, IF ec >= 128 THEN 0 ELSE 2)

\* checkRow_16Pin: error_in_lower_half after a mismatch in row r, column ec
LowerFlag(lo0, r, ec) ==
  Or8(Or8(lo0, IF r >= 128 THEN 0 ELSE 1), IF ec >= 128 THEN 0 ELSE 2)

\* checkRow_16Pin: error_in_upper_half after a mismatch in row r, column ec
UpperFlag(up0, r, ec) ==
  Or8(Or8(up0, IF r >= 128 THEN 1 ELSE 0), IF ec >= 128 THEN 2 ELSE 0)

\* checkRow_16Pin: the outcome of a call that found a mismatch
HalfResult(t, lo, up) == [lo |-> lo, up |-> up, hit |-> ~Swallowed(t, lo, up)]

\* checkRow_16Pin, the error handling after the scan of row r with the
\* differing CAS cycles M: the flags after the call and whether it ended in
\* error(pat_nr + 1, check)
HalfCheck16(lo0, up0, t, r, M) ==
  IF M = {} THEN [lo |-> lo0, up |-> up0, hit |-> FALSE]
  ELSE HalfResult(t, LowerFlag(lo0, r, RandLogCol16(SetMin(M))),
                  UpperFlag(up0, r, RandLogCol16(SetMin(M))))

\* the retention read-backs of one writeRow_16Pin call from the i-th on, up
\* to the first that ends in error(); scans[i] is the scan of row rs[i];
\* done counts the read-backs made
RECURSIVE Retention16(_, _, _, _, _, _)
RECURSIVE Retention16Step(_, _, _, _, _)
Retention16(scans, rs, i, lo0, up0, t) ==
  IF i > Len(rs) THEN [lo |-> lo0, up |-> up0, hit |-> FALSE, done |-> Len(rs)]
  ELSE Retention16Step(scans, rs, i, t, HalfCheck16(lo0, up0, t, rs[i], scans[i]))

Retention16Step(scans, rs, i, t, h) ==
  IF h.hit THEN [lo |-> h.lo, up |-> h.up, hit |-> TRUE, done |-> i]
  ELSE Retention16(scans, rs, i + 1, h.lo, h.up, t)

\* writeRow_16Pin(row, cols, patNr) on a page-mode type, with the step of
\* the row loop of run_16Pin_tests that follows it
writeRow_16Pin ==
  /\ family = "16"
  /\ pc = "rows"
  /\ \E def \in {ramTypes16[type]} :
     \E rt1 \in {PageWrite(chip, rowTag, "16", PhysRow(chip, PinAddr("16", row)),
                           Wr("rand16", patNr, row, invCount, 0))} :
     \E rs \in {RetentionRows(row, def.rows - 1, def.delayRows)} :
     \E scans \in {[i \in 1..Len(rs) |->
                      RowScan(chip, "16", rt1[PhysRow(chip, PinAddr("16", rs[i]))],
                              RowFaults(chip, PhysRow(chip, PinAddr("16", rs[i])), TRUE),
                              def.columns, Wr("rand16", patNr, rs[i], invCount, 0),
                              randomTable)]} :
     \E res \in {Retention16(scans, rs, 1, error_in_lower_half, error_in_upper_half,
                             type)} :
       /\ rowTag' = rt1
       /\ cells' = PageDrop(chip, cells, "16", PhysRow(chip, PinAddr("16", row)))
       /\ error_in_lower_half' = res.lo
       /\ error_in_upper_half' = res.up
       /\ chip_half_status' = chip_half_status
       /\ ev' = RowEvents(row, rs, res.done)
       /\ written' = Written(row)
       /\ checked' = Checked(row, rs, res.done)
       /\ RowStep(res.hit, patNr + 1, 3, <<-1, -1>>, row, def.rows, "classify")
  /\ interrupts' = TRUE
  /\ UNCHANGED <<fixVars, type, bitIdx, tableVars, typeSuffix, shown, ledVars>>

\* run_16Pin_tests: the rows of a pass 4 or 5 for the ramTypes entry def
\* (if (flags & RAM_FLAG_NIBBLE_MODE) total_rows /= 2)
TotalRows(def) == IF def.nibble THEN def.rows \div 2 ELSE def.rows

\* the pattern loops: if (patNr == 5) invertRandomTable();
invertTable ==
  /\ pc = "invert"
  /\ randomTable' = invertRandomTable(randomTable)
  /\ invCount' = invCount + 1
  /\ Goto("rows")
  /\ ev' = <<>>
  /\ UNCHANGED <<fixVars, interrupts, type, memVars, halfVars, loopVars, typeSuffix, shown,
                 ledVars, histVars>>

\* a classification that names the chip a 4532
Subtype16As4532(t, lo, up) ==
  IF t = T_4164 /\ And8(lo, 2) # And8(up, 2) THEN T_4532 ELSE t

\* a subtype determination that takes every 4164 for a half-good chip
Subtype16Always(t, lo, up) ==
  IF t = T_4164 THEN T_3732 ELSE t

\* run_16Pin_tests: type after the half-good subtype determination
Subtype16(t, lo, up) ==
  IF t = T_4164 /\ And8(lo, 2) # And8(up, 2) THEN T_3732 ELSE t

\* test_16Pin: the stage after run_16Pin_tests
AfterTests16(t) == IF t = T_41256 THEN "refresh" ELSE "testOK"

\* run_16Pin_tests: half-good subtype determination, and the branch of
\* test_16Pin that follows it
run_16Pin_tests_end ==
  /\ family = "16"
  /\ pc = "classify"
  /\ \E t1 \in {Subtype16(type, error_in_lower_half, error_in_upper_half)} :
       /\ type' = t1
       /\ typeSuffix' = IF t1 = T_3732
                        THEN (IF And8(error_in_lower_half, 2) # 0 THEN "(H)" ELSE "(L)")
                        ELSE typeSuffix
       /\ Goto(AfterTests16(t1))
  /\ ev' = <<>>
  /\ UNCHANGED <<fixVars, interrupts, memVars, halfVars, loopVars, tableVars, shown,
                 ledVars, histVars>>

-----------------------------------------------------------------------------
(* Refresh-counter tests                                                   *)

\* a write phase that writes column 0 only
RefreshCellsColumn0(ch, via, rows, n, Data) ==
  [x \in {PhysRow(ch, PinAddr(via, r)) : r \in 0..(rows - 1)} \X {PhysCol(ch, PinAddr(via, 0))}
     |-> Data[x[1]][0]]

\* the cells after phase 1 of a refresh test: Data[r][c] written to the
\* columns c < n of the rows r < rows, rows and columns ascending
RefreshCells(ch, via, rows, n, Data) ==
  LET LastRow == [pr \in {PhysRow(ch, PinAddr(via, r)) : r \in 0..(rows - 1)} |->
                    SetMax({r \in 0..(rows - 1) : PhysRow(ch, PinAddr(via, r)) = pr})]
      LastCol == [pcl \in {PhysCol(ch, PinAddr(via, c)) : c \in 0..(n - 1)} |->
                    SetMax({c \in 0..(n - 1) : PhysCol(ch, PinAddr(via, c)) = pcl})]
  IN  [x \in (DOMAIN LastRow) \X (DOMAIN LastCol) |-> Data[LastRow[x[1]]][LastCol[x[2]]]]

\* cells after the bus cycles that wrote the cells new
Overwrite(ch, via, cs, new) == IF ch.pin # via THEN cs ELSE new @@ cs

\* what the tester reads after the refresh phase: the cell, or nothing but
\* lost charge if the refresh counter of the chip does not count
ReadRefreshed(ch, via, cs, rt, r, c) ==
  IF ch.pin # via THEN ch.float
  ELSE IF ~ch.cbr THEN ch.mask * ch.pu
  ELSE ReadCell(ch, cs, rt, <<PhysRow(ch, PinAddr(via, r)), PhysCol(ch, PinAddr(via, c))>>,
                PinAddr(via, c), TRUE)

\* the rows in which the read-back phase of a refresh test finds a cell
\* whose low bits (modulo m) differ
RefreshLostRows(ch, via, cs, rt, rows, n, m, Data) ==
  {r \in 0..(rows - 1) :
     \E c \in 0..(n - 1) : (ReadRefreshed(ch, via, cs, rt, r, c) % m) # Data[r][c]}

\* the read-back phase of a refresh test finds such a cell
RefreshLost(ch, via, cs, rt, rows, n, m, Data) ==
  RefreshLostRows(ch, via, cs, rt, rows, n, m, Data) # {}

\* sequences of as many cycles as the type has rows
refresh_cyclesByRows(via, t) == ramTypes[t].rows

\* refresh_cycles: the CAS-before-RAS cycles of one sequence of phase 2
refresh_cycles(via, t) ==
  CASE via = "16" -> 256
    [] via = "18" -> 256
    [] via = "18a" -> 512
    [] OTHER -> IF t = T_514256 \/ t = T_514258 THEN 512 ELSE 1024

\* the row operations of a refresh test, Ev("R", k) standing for k
\* CAS-before-RAS cycles in a row: each row written and one refresh cycle
\* after it, the ten sequences of phase 2, each row read back and one
\* refresh cycle after it, up to the first row of lost that ends in error()
RefreshEvents(via, rows, t, lost) ==
  LET done == IF lost = {} THEN rows ELSE SetMin(lost)
  IN  [i \in 1..(2 * rows) |->
         IF i % 2 = 1 THEN Ev("W", (i - 1) \div 2) ELSE Ev("R", 1)]
      \o [i \in 1..10 |-> Ev("R", refresh_cycles(via, t))]
      \o [i \in 1..(2 * done) |->
            IF i % 2 = 1 THEN Ev("C", (i - 1) \div 2) ELSE Ev("R", 1)]
      \o (IF lost = {} THEN <<>> ELSE <<Ev("C", done)>>)
-----------------------------------------------------------------------------
(* Steps shared by the 18-pin and 20-pin routines                          *)

\* what a sensing step leaves alone besides cells, type and the position
SenseFrame ==
  /\ ev' = <<>>
  /\ UNCHANGED <<fixVars, interrupts, rowTag, halfVars, loopVars, tableVars, typeSuffix,
                 shown, ledVars, histVars>>

\* what a verifier step leaves alone besides cells, b and the position
ProbeFrame ==
  /\ ev' = <<>>
  /\ UNCHANGED <<fixVars, interrupts, type, rowTag, halfVars, patNr, row, tableVars,
                 typeSuffix, shown, ledVars, histVars>>

\* what a writeRow step leaves alone
RowFrame ==
  UNCHANGED <<fixVars, type, bitIdx, halfVars, tableVars, typeSuffix, shown,
              ledVars>>

\* the I flag a row routine leaves behind: ret where it returns to its
\* caller, err where it calls error()
Sreg(ret, err) == [ret |-> ret, err |-> err]

\* the write loop of a verifier that writes all pairs before it verifies:
\* base, peer of bit 0, base, peer of bit 1, ...
PairWrites(base, peers) ==
  [i \in 1..(2 * Len(peers)) |-> IF i % 2 = 1 THEN base ELSE peers[i \div 2]]

\* the read-backs of a writeRow call up to the first that differs: the
\* routine leaves with error() there. H holds the indices that differ.
FirstHit(H, n) ==
  IF H = {} THEN [hit |-> FALSE, done |-> n] ELSE [hit |-> TRUE, done |-> SetMin(H)]

\* the col argument of the error() call of a read-back on the wiring via in
\* CAS cycle k: checkRow_20Pin passes its loop variable, a uint8_t that
\* counts the columns within the current msb; the other routines pass the
\* column counter of their loop
ErrorCol(via, k) == IF via = "20" THEN k % 256 ELSE k

\* a writeRow call that writes the row d.lrow as d says and reads back the
\* rows rs, with the step of the row loop that follows it
RowPass(via, d, n, rs, code, kind, total_rows, after, sreg) ==
  \E rt1 \in {PageWrite(chip, rowTag, via, PhysRow(chip, PinAddr(via, d.lrow)), d)} :
  \E scans \in {[i \in 1..Len(rs) |->
                   RowScan(chip, via, rt1[PhysRow(chip, PinAddr(via, rs[i]))],
                           RowFaults(chip, PhysRow(chip, PinAddr(via, rs[i])), kind = 3),
                           n, [d EXCEPT !.lrow = rs[i]], randomTable)]} :
  \E res \in {FirstHit({i \in 1..Len(rs) : scans[i] # {}}, Len(rs))} :
    /\ rowTag' = rt1
    /\ cells' = PageDrop(chip, cells, via, PhysRow(chip, PinAddr(via, d.lrow)))
    /\ ev' = RowEvents(d.lrow, rs, res.done)
    /\ written' = Written(d.lrow)
    /\ checked' = Checked(d.lrow, rs, res.done)
    /\ interrupts' = IF res.hit THEN sreg.err ELSE sreg.ret
    /\ RowStep(res.hit, code, kind,
               IF res.hit THEN <<rs[res.done], ErrorCol(via, SetMin(scans[res.done]))>>
               ELSE <<-1, -1>>,
               d.lrow, total_rows, after)

\* a refresh test: Data written to the first n columns of all rows, the
\* refresh phase, and the read-back of the low bits (modulo m) of each cell
RefreshTest(via, rows, n, m, Data) ==
  /\ pc = "refresh"
  /\ \E c1 \in {Overwrite(chip, via, cells, RefreshCells(chip, via, rows, n, Data))} :
       /\ cells' = c1
       /\ IF RefreshLost(chip, via, c1, rowTag, rows, n, m, Data)
          THEN Raise(0, 5) ELSE Goto("testOK")
       /\ ev' = RefreshEvents(via, rows, type,
                              RefreshLostRows(chip, via, c1, rowTag, rows, n, m, Data))
  /\ UNCHANGED <<fixVars, interrupts, type, rowTag, halfVars, loopVars, tableVars, typeSuffix,
                 shown, ledVars, histVars>>

-----------------------------------------------------------------------------
(* 18-pin family                                                           *)

Good4416 == Chip("18", 256, 64, 1, 15, 15)

Good4464 == Chip("18", 256, 256, 0, 15, 15)

Good411000 == Chip("18a", 1024, 1024, 0, 1, 15)

\* the 18-pin chips with one stuck address bit
Stuck18 ==
  {[g EXCEPT !.sab = StuckBit(on, b, v)] :
     g \in {Good4416, Good4464, Good411000}, on \in {"row", "col"}, b \in 0..9,
     v \in {0, 1}}

Chips18 ==
  { NoChip(0), NoChip(15), Good4416, Good4464, Good411000,
    [Good4464 EXCEPT !.bad = {Region(0, 0, 0, 0, 1, FALSE)}],
    [Good4464 EXCEPT !.bad = {Region(7, 7, 3, 3, 0, FALSE)}],
    [Good4416 EXCEPT !.bad = {Region(250, 250, 60, 60, 1, TRUE)}],
    [Good4464 EXCEPT !.cbr = FALSE],
    [Good411000 EXCEPT !.bad = {Region(1000, 1000, 900, 900, 1, TRUE)}],
    [Good411000 EXCEPT !.cbr = FALSE] }
  \cup {c \in Stuck18 :
          c.sab.b < AddrBits(IF c.sab.on = "row" THEN c.rows ELSE c.cols)}

\* CALC_PORTD(a): A1..A3 on PD0..PD2, A4..A6 on PD5..PD7
CALC_PORTD(a) ==
  BitOf(a, 1) + 2 * BitOf(a, 2) + 4 * BitOf(a, 3)
  + 32 * BitOf(a, 4) + 64 * BitOf(a, 5) + 128 * BitOf(a, 6)

\* high bits without A9
CALC_PORTBNoA9(a) == 16 * BitOf(a, 7) + 4 * BitOf(a, 8)

\* CALC_PORTB(a): A7 on PB4, A8 on PB2, A9 on PB0
CALC_PORTB(a) == 16 * BitOf(a, 7) + 4 * BitOf(a, 8) + BitOf(a, 9)

\* lut_18Pin_Low[128] = { ROW64_D(0), ROW64_D(64) }
lut_18Pin_Low == Tabulate([i \in 0..127 |-> CALC_PORTD(i)])

\* lut_18Pin_High[8] = { CALC_PORTB(0), CALC_PORTB(128), ..., CALC_PORTB(896) }
lut_18Pin_High == Tabulate([i \in 0..7 |-> CALC_PORTB(128 * i)])

\* the address bits setAddr_18Pin_Alt(a) puts on PORTB, PORTC (A0 on PC4)
\* and PORTD
setAddr_18Pin_Alt(a) ==
  << lut_18Pin_High[(a \div 128) % 8], 16 * (a % 2), lut_18Pin_Low[a % 128] >>

write18Pin(r, c, data) == Cycle("18", r, c, data)

read18Pin(r, c) == Cycle("18", r, c, -1)

write_alt_18Pin(r, c, data) == Cycle("18a", r, c, IF data # 0 THEN 1 ELSE 0)

read_addr_alt_18Pin(r, c) == Cycle("18a", r, c, -1)

\* test_18Pin: if (ram_present_18Pin()) ... else type = -1
ram_present_18Pin ==
  /\ family = "18"
  /\ pc = "present"
  /\ \E res \in {Bus(chip, cells, rowTag, <<write18Pin(0, 0, 5), read18Pin(0, 0)>>,
                     1, <<>>)} :
       /\ cells' = res.cells
       /\ Goto(IF res.out = <<5>> THEN "sense" ELSE "presentAlt")
  /\ type' = NoType
  /\ SenseFrame

\* sense4464_18Pin, and the test of type that follows it in test_18Pin
sense4464_18Pin ==
  /\ family = "18"
  /\ pc = "sense"
  /\ \E one \in {Bus(chip, cells, rowTag, <<write18Pin(0, 0, 5), read18Pin(0, 0)>>,
                     1, <<>>)} :
     \E a0 \in {Bus(chip, one.cells, rowTag,
                    IF one.out = <<15>> THEN <<>>
                    ELSE <<write18Pin(0, 0, 0), write18Pin(0, 1, 15), read18Pin(0, 0)>>,
                    1, <<>>)} :
     \E a7 \in {Bus(chip, a0.cells, rowTag,
                    IF a0.out # <<0>> THEN <<>>
                    ELSE <<write18Pin(0, 128, 15), read18Pin(0, 0)>>, 1, <<>>)} :
       /\ cells' = a7.cells
       /\ type' = IF one.out = <<15>> THEN NoType
                  ELSE IF a0.out # <<0>> \/ a7.out # <<0>> THEN T_4416
                  ELSE T_4464
       /\ Goto(IF one.out = <<15>> THEN "presentAlt" ELSE "writeRAMType")
  /\ SenseFrame

\* test_18Pin: if (ram_present_18Pin_alt()) ...; if (type == -1) error(0, 0)
ram_present_18Pin_alt ==
  /\ family = "18"
  /\ pc = "presentAlt"
  /\ \E res \in {Bus(chip, cells, rowTag,
                     <<write_alt_18Pin(0, 0, 0), read_addr_alt_18Pin(0, 0)>>, 1, <<>>)} :
       /\ cells' = res.cells
       /\ Found(res.out = <<0>>, "senseAlt")
  /\ type' = type
  /\ SenseFrame

\* sense411000_18Pin_Alt, and the test of type that follows it in test_18Pin
sense411000_18Pin_Alt ==
  /\ family = "18"
  /\ pc = "senseAlt"
  /\ \E res \in {Bus(chip, cells, rowTag,
                     <<write_alt_18Pin(0, 0, 0), read_addr_alt_18Pin(0, 0),
                       write_alt_18Pin(1, 1, 1), read_addr_alt_18Pin(1, 1),
                       read_addr_alt_18Pin(0, 0)>>, 1, <<>>)} :
       /\ cells' = res.cells
       /\ type' = IF res.out = <<0, 1, 0>> THEN T_411000 ELSE type
       /\ Found(res.out = <<0, 1, 0>>, "writeRAMType")
  /\ SenseFrame

\* test_18Pin: the text put on the display and the branch on the type
writeRAMType_18Pin ==
  /\ family = "18"
  /\ pc = "writeRAMType"
  /\ shown' = ramTypes[type].name
  /\ bitIdx' = 0
  /\ Goto(IF type = T_411000 THEN "addrRow" ELSE "addrRowWrite")
  /\ ev' = <<>>
  /\ UNCHANGED <<fixVars, interrupts, type, memVars, halfVars, patNr, row, tableVars,
                 typeSuffix, ledVars, histVars>>

\* checkAddressing_18Pin: cshift
cshift18(t) == IF t = T_4416 THEN 1 ELSE 0

\* checkAddressing_18Pin: safeCol
safeCol18(t) == IF t = T_4416 THEN 2 ELSE 0

\* checkAddressing_18Pin: the loop that writes the row pairs
checkAddressing_18Pin_rowWrite ==
  /\ family = "18"
  /\ pc = "addrRowWrite"
  /\ cells' = Bus(chip, cells, rowTag,
                  PairWrites(write18Pin(0, safeCol18(type), 5),
                             [i \in 1..AddrBits(ramTypes[type].rows) |->
                                write18Pin(PeerAddr(i - 1), safeCol18(type), 10)]),
                  1, <<>>).cells
  /\ bitIdx' = 0
  /\ Goto("addrRow")
  /\ ev' = <<>>
  /\ UNCHANGED <<fixVars, interrupts, type, rowTag, halfVars, patNr, row, tableVars,
                 typeSuffix, shown, ledVars, histVars>>

\* checkAddressing_18Pin: one pass of the loop that verifies the row pairs
checkAddressing_18Pin_row ==
  /\ family = "18"
  /\ pc = "addrRow"
  /\ type # T_411000
  /\ \E res \in {Bus(chip, cells, rowTag,
                     <<read18Pin(0, safeCol18(type)),
                       read18Pin(PeerAddr(bitIdx), safeCol18(type))>>, 1, <<>>)} :
       /\ cells' = res.cells
       /\ Probed(res.out # <<5, 10>>, RowCode(bitIdx), bitIdx,
                 AddrBits(ramTypes[type].rows), "addrRow", "addrColWrite")
  /\ ProbeFrame

\* checkAddressing_18Pin: the loop that writes the column pairs
checkAddressing_18Pin_colWrite ==
  /\ family = "18"
  /\ pc = "addrColWrite"
  /\ cells' = Bus(chip, cells, rowTag,
                  PairWrites(write18Pin(ramTypes[type].rows \div 2, 0, 5),
                             [i \in 1..AddrBits(ramTypes[type].columns) |->
                                write18Pin(ramTypes[type].rows \div 2,
                                           PeerAddr(i - 1) * Pow2(cshift18(type)), 10)]),
                  1, <<>>).cells
  /\ bitIdx' = 0
  /\ Goto("addrCol")
  /\ ev' = <<>>
  /\ UNCHANGED <<fixVars, interrupts, type, rowTag, halfVars, patNr, row, tableVars,
                 typeSuffix, shown, ledVars, histVars>>

\* checkAddressing_18Pin: one pass of the loop that verifies the column pairs
checkAddressing_18Pin_col ==
  /\ family = "18"
  /\ pc = "addrCol"
  /\ type # T_411000
  /\ \E res \in {Bus(chip, cells, rowTag,
                     <<read18Pin(ramTypes[type].rows \div 2, 0),
                       read18Pin(ramTypes[type].rows \div 2,
                                 PeerAddr(bitIdx) * Pow2(cshift18(type)))>>, 1, <<>>)} :
       /\ cells' = res.cells
       /\ Probed(res.out # <<5, 10>>, ColCode(bitIdx), bitIdx,
                 AddrBits(ramTypes[type].columns), "addrCol", "rows")
  /\ ProbeFrame

\* test_18Pin: the stage after the pattern loop
AfterTests18(t) == IF t = T_4464 \/ t = T_411000 THEN "refresh" ELSE "testOK"

\* writeRow_18Pin(row, patNr, width), with the step of the row loop of
\* test_18Pin that follows it
writeRow_18Pin ==
  /\ family = "18"
  /\ pc = "rows"
  /\ type # T_411000
  /\ RowPass("18",
             Wr(IF patNr < 4 THEN "pat18" ELSE "rand18", patNr, row % 256, invCount,
                cshift18(type)),
             ramTypes[type].columns,
             IF patNr < 4 THEN <<row % 256>>
             ELSE RetentionRows(row % 256, ramTypes[type].rows - 1,
                                ramTypes[type].delayRows),
             patNr, IF patNr < 4 THEN 2 ELSE 3, ramTypes[type].rows,
             AfterTests18(type), Sreg(TRUE, FALSE))
  /\ RowFrame

\* refreshTimeTest_18Pin: the two bits written to column col of row r
RefreshData18(tab, rows) ==
  [r \in 0..(rows - 1) |-> [col \in 0..1 |-> (tab[r % 256] \div Pow2(2 * col)) % 4]]

refreshTimeTest_18Pin ==
  /\ family = "18"
  /\ type # T_411000
  /\ RefreshTest("18", ramTypes[type].rows, 2, 4,
                 RefreshData18(randomTable, ramTypes[type].rows))

\* checkAddressing_18Pin_Alt: one pass of the row loop
checkAddressing_18Pin_Alt_row ==
  /\ family = "18"
  /\ pc = "addrRow"
  /\ type = T_411000
  /\ \E res \in {Bus(chip, cells, rowTag,
                     <<write_alt_18Pin(0, 0, 0), write_alt_18Pin(PeerAddr(bitIdx), 0, 1),
                       read_addr_alt_18Pin(0, 0),
                       read_addr_alt_18Pin(PeerAddr(bitIdx), 0)>>, 1, <<>>)} :
       /\ cells' = res.cells
       /\ Probed(res.out # <<0, 1>>, RowCode(bitIdx), bitIdx,
                 AddrBits(ramTypes[type].rows), "addrRow", "addrCol")
  /\ ProbeFrame

\* checkAddressing_18Pin_Alt: one pass of the column loop
checkAddressing_18Pin_Alt_col ==
  /\ family = "18"
  /\ pc = "addrCol"
  /\ type = T_411000
  /\ \E res \in {Bus(chip, cells, rowTag,
                     <<write_alt_18Pin(0, 0, 0), write_alt_18Pin(0, PeerAddr(bitIdx), 1),
                       read_addr_alt_18Pin(0, 0),
                       read_addr_alt_18Pin(0, PeerAddr(bitIdx))>>, 1, <<>>)} :
       /\ cells' = res.cells
       /\ Probed(res.out # <<0, 1>>, ColCode(bitIdx), bitIdx,
                 AddrBits(ramTypes[type].columns), "addrCol", "rows")
  /\ ProbeFrame

\* writeRow_18Pin_Alt(row, patNr), with the step of the row loop of
\* test_18Pin that follows it. Patterns 0 and 1 are read back cell by cell
\* right after each write, and the routine returns after their loop
\* without sei().
writeRow_18Pin_Alt ==
  /\ family = "18"
  /\ pc = "rows"
  /\ type = T_411000
  /\ RowPass("18a",
             Wr(IF patNr < 2 THEN "fix18a" ELSE IF patNr < 4 THEN "rot18a" ELSE "rand18a",
                patNr, row, invCount, 0),
             1024,
             IF patNr < 4 THEN <<row>>
             ELSE RetentionRows(row, ramTypes[type].rows - 1, ramTypes[type].delayRows),
             IF patNr < 2 THEN patNr ELSE patNr + 1, IF patNr < 4 THEN 2 ELSE 3, 1024,
             AfterTests18(type), Sreg(patNr >= 2, FALSE))
  /\ RowFrame

\* refreshTimeTest_18Pin_Alt: the bit written to column col of row r
RefreshData18Alt(tab, rows) ==
  [r \in 0..(rows - 1) |-> [col \in 0..7 |-> BitOf(tab[r % 256], col)]]

refreshTimeTest_18Pin_Alt ==
  /\ family = "18"
  /\ type = T_411000
  /\ RefreshTest("18a", 1024, 8, 2, RefreshData18Alt(randomTable, 1024))

\* refreshTimeTest_16Pin: the bit written to column col of row r
RefreshData16(tab, rows) ==
  [r \in 0..(rows - 1) |-> [col \in 0..7 |-> BitOf(tab[r % 256], col)]]

refreshTimeTest_16Pin ==
  /\ family = "16"
  /\ RefreshTest("16", ramTypes16[type].rows, 8, 2,
                 RefreshData16(randomTable, ramTypes16[type].rows))

-----------------------------------------------------------------------------
(* 20-pin family                                                           *)

Good514256 == Chip("20", 512, 512, 0, 15, 15)

Good514400 == Chip("20", 1024, 1024, 0, 15, 15)

Good4116 == [Chip("4116", 128, 128, 0, 1, 1) EXCEPT !.adapter = TRUE]

Good4027 == [Chip("4116", 64, 64, 0, 1, 1) EXCEPT !.adapter = TRUE, !.cs = TRUE]

\* the 20-pin chips and the chips on the adapter with one stuck address bit
Stuck20 ==
  {[g EXCEPT !.sab = StuckBit(on, b, v)] :
     g \in {Good514256, Good514400, Good4116, Good4027}, on \in {"row", "col"},
     b \in 0..9, v \in {0, 1}}

Chips20 ==
  { NoChip(0), NoChip(15), Good514256, Good514400,
    [Good514256 EXCEPT !.sc = TRUE],
    [Good514400 EXCEPT !.sc = TRUE],
    [Good514256 EXCEPT !.bad = {Region(300, 300, 17, 17, 1, FALSE)}],
    [Good514256 EXCEPT !.bad = {Region(510, 510, 400, 400, 0, TRUE)}],
    [Good514400 EXCEPT !.cbr = FALSE],
    Good4116, Good4027,
    [Good4027 EXCEPT !.float = 0],
    [NoChip(0) EXCEPT !.adapter = TRUE],
    [NoChip(1) EXCEPT !.adapter = TRUE],
    [Good4116 EXCEPT !.bad = {Region(5, 5, 100, 100, 1, FALSE)}],
    [Good4116 EXCEPT !.bad = {Region(126, 126, 3, 3, 0, TRUE)}] }
  \cup {c \in Stuck20 :
          c.sab.b < AddrBits(IF c.sab.on = "row" THEN c.rows ELSE c.cols)}

write20Pin(r, c, data) == Cycle("20", r, c, data)

read20Pin(r, c) == Cycle("20", r, c, -1)

\* a read cycle of the 20-pin wiring with OE high
readNoOE20Pin(r, c) == Cycle("20", r, c, -2)

write_4116(r, c, data) == Cycle("4116", r, c, IF data # 0 THEN 1 ELSE 0)

read_4116(r, c) == Cycle("4116", r, c, -1)

\* test_20Pin: if (test_4116() == true) { type = T_4116; ... }
test_4116 ==
  /\ family = "20"
  /\ pc = "adapter"
  /\ type' = IF chip.adapter THEN T_4116 ELSE type
  /\ Goto(IF chip.adapter THEN "present4116" ELSE "present")
  /\ UNCHANGED cells
  /\ SenseFrame

\* test_20Pin: if (!ram_present_20Pin()) error(0, 0)
ram_present_20Pin ==
  /\ family = "20"
  /\ pc = "present"
  /\ \E res \in {Bus(chip, cells, rowTag,
                     <<write20Pin(0, 0, 0), readNoOE20Pin(0, 0), read20Pin(0, 0)>>,
                     1, <<>>)} :
       /\ cells' = res.cells
       /\ Found(res.out = <<15, 0>>, "sense")
  /\ type' = type
  /\ SenseFrame

\* a sensing routine that takes an unchanged row 0 for the sign of the
\* smaller chip
senseRAM_20PinExchanged ==
  /\ family = "20"
  /\ pc = "sense"
  /\ \E res \in {Bus(chip, cells, rowTag,
                     <<write20Pin(0, 0, 5), write20Pin(512, 512, 10), read20Pin(0, 0)>>,
                     1, <<>>)} :
       /\ cells' = res.cells
       /\ type' = IF res.out # <<5>> THEN T_514400 ELSE T_514256
  /\ Goto("senseSC")
  /\ SenseFrame

\* senseRAM_20Pin: the second write has the address 512 on the pins at CAS
\* time as well
senseRAM_20Pin ==
  /\ family = "20"
  /\ pc = "sense"
  /\ \E res \in {Bus(chip, cells, rowTag,
                     <<write20Pin(0, 0, 5), write20Pin(512, 512, 10), read20Pin(0, 0)>>,
                     1, <<>>)} :
       /\ cells' = res.cells
       /\ type' = IF res.out # <<5>> THEN T_514256 ELSE T_514400
  /\ Goto("senseSC")
  /\ SenseFrame

\* senseSCRAM_20Pin: the column a chip selects for the column address c set
\* while CAS stays low: a static column chip follows the address, a page
\* mode chip stays on the column latched when CAS fell
HeldCol(ch, first, c) == IF ch.sc THEN c ELSE first

\* senseSCRAM_20Pin: the values the loop reads up to the first that differs,
\* and whether all four matched
senseSCRAM_20Pin ==
  /\ family = "20"
  /\ pc = "senseSC"
  /\ \E res \in {Bus(chip, cells, rowTag,
                     <<write20Pin(0, 0, 0), write20Pin(0, 5, 5), write20Pin(0, 10, 10),
                       write20Pin(0, 15, 15),
                       read20Pin(0, HeldCol(chip, 0, 0)), read20Pin(0, HeldCol(chip, 0, 5)),
                       read20Pin(0, HeldCol(chip, 0, 10)),
                       read20Pin(0, HeldCol(chip, 0, 15))>>, 1, <<>>)} :
       /\ cells' = res.cells
       /\ type' = IF res.out = <<0, 5, 10, 15>>
                  THEN (IF type = T_514400 THEN T_514402 ELSE T_514258)
                  ELSE type
  /\ Goto("writeRAMType")
  /\ SenseFrame

\* test_20Pin and test_4116_logic: the text put on the display
writeRAMType_20Pin ==
  /\ family = "20"
  /\ pc = "writeRAMType"
  /\ shown' = ramTypes[type].name
  /\ bitIdx' = 0
  /\ Goto(IF type = T_4116 \/ type = T_4027 THEN "addrRow" ELSE "addrRowWrite")
  /\ ev' = <<>>
  /\ UNCHANGED <<fixVars, interrupts, type, memVars, halfVars, patNr, row, tableVars,
                 typeSuffix, ledVars, histVars>>

\* checkAddressing_20Pin: the loop that writes the row pairs
checkAddressing_20Pin_rowWrite ==
  /\ family = "20"
  /\ pc = "addrRowWrite"
  /\ cells' = Bus(chip, cells, rowTag,
                  PairWrites(write20Pin(0, 0, 0),
                             [i \in 1..AddrBits(ramTypes[type].rows) |->
                                write20Pin(PeerAddr(i - 1), 0, 15)]),
                  1, <<>>).cells
  /\ bitIdx' = 0
  /\ Goto("addrRow")
  /\ ev' = <<>>
  /\ UNCHANGED <<fixVars, interrupts, type, rowTag, halfVars, patNr, row, tableVars,
                 typeSuffix, shown, ledVars, histVars>>

\* checkAddressing_20Pin: one pass of the loop that verifies the row pairs
checkAddressing_20Pin_row ==
  /\ family = "20"
  /\ pc = "addrRow"
  /\ type \notin {T_4116, T_4027}
  /\ \E res \in {Bus(chip, cells, rowTag,
                     <<read20Pin(0, 0), read20Pin(PeerAddr(bitIdx), 0)>>, 1, <<>>)} :
       /\ cells' = res.cells
       /\ Probed(res.out # <<0, 15>>, RowCode(bitIdx), bitIdx,
                 AddrBits(ramTypes[type].rows), "addrRow", "addrColWrite")
  /\ ProbeFrame

\* checkAddressing_20Pin: the loop that writes the column pairs
checkAddressing_20Pin_colWrite ==
  /\ family = "20"
  /\ pc = "addrColWrite"
  /\ cells' = Bus(chip, cells, rowTag,
                  PairWrites(write20Pin(ramTypes[type].rows \div 2, 0, 0),
                             [i \in 1..AddrBits(ramTypes[type].columns) |->
                                write20Pin(ramTypes[type].rows \div 2, PeerAddr(i - 1),
                                           15)]),
                  1, <<>>).cells
  /\ bitIdx' = 0
  /\ Goto("addrCol")
  /\ ev' = <<>>
  /\ UNCHANGED <<fixVars, interrupts, type, rowTag, halfVars, patNr, row, tableVars,
                 typeSuffix, shown, ledVars, histVars>>

\* checkAddressing_20Pin: one pass of the loop that verifies the column
\* pairs
checkAddressing_20Pin_col ==
  /\ family = "20"
  /\ pc = "addrCol"
  /\ type \notin {T_4116, T_4027}
  /\ \E res \in {Bus(chip, cells, rowTag,
                     <<read20Pin(ramTypes[type].rows \div 2, 0),
                       read20Pin(ramTypes[type].rows \div 2, PeerAddr(bitIdx))>>,
                     1, <<>>)} :
       /\ cells' = res.cells
       /\ Probed(res.out # <<0, 15>>, ColCode(bitIdx), bitIdx,
                 AddrBits(ramTypes[type].columns), "addrCol", "fast")
  /\ ProbeFrame

\* test_20Pin: the stage after the pattern loops
AfterTests20(t) ==
  IF t \in {T_514256, T_514258, T_514400, T_514402} THEN "refresh" ELSE "testOK"

\* the rows 0 .. n - 1 as a sequence
RowsUpTo(n) == [i \in 1..n |-> i - 1]

\* fastPatternTest_20Pin(patNr): the write of all rows, the read-back of all
\* rows up to the first cell that differs, and the step of the pattern loop
\* of test_20Pin that follows it
fastPatternTest_20Pin ==
  /\ family = "20"
  /\ pc = "fast"
  /\ \E def \in {ramTypes[type]} :
     \E tag \in {Wr("fast20", patNr, 0, invCount, 0)} :
     \E prs \in {IF chip.pin # "20" THEN {}
                 ELSE {PhysRow(chip, PinAddr("20", r)) : r \in 0..(def.rows - 1)}} :
     \E rt1 \in {[pr \in DOMAIN rowTag |-> IF pr \in prs THEN tag ELSE rowTag[pr]]} :
     \E res \in {FirstHit({r + 1 : r \in {q \in 0..(def.rows - 1) :
                    RowScan(chip, "20", rt1[PhysRow(chip, PinAddr("20", q))],
                            RowFaults(chip, PhysRow(chip, PinAddr("20", q)), FALSE),
                            def.columns, tag, randomTable) # {}}}, def.rows)} :
       /\ rowTag' = rt1
       /\ cells' = DropRows(cells, prs)
       /\ ev' = [i \in 1..def.rows |-> Ev("W", i - 1)]
                  \o [i \in 1..res.done |-> Ev("C", i - 1)]
       /\ written' = 0..(def.rows - 1)
       /\ checked' = 0..(res.done - 1)
       /\ IF res.hit
          THEN /\ RaiseAt(patNr, 2, res.done - 1,
                          SetMin(RowScan(chip, "20",
                                         rt1[PhysRow(chip, PinAddr("20", res.done - 1))],
                                         RowFaults(chip, PhysRow(chip, PinAddr("20", res.done - 1)), FALSE),
                                         def.columns, tag, randomTable)))
               /\ patNr' = patNr
          ELSE Goto(IF NextPat(patNr) < 4 THEN "fast" ELSE "rows")
               /\ patNr' = NextPat(patNr)
  /\ row' = 0
  /\ interrupts' = TRUE
  /\ UNCHANGED <<fixVars, type, bitIdx, halfVars, tableVars, typeSuffix, shown,
                 ledVars>>

\* writeRow_20Pin(row, patNr, is_static), with the step of the row loop of
\* test_20Pin that follows it; checkRow_20Pin is called with 4 for patNr
writeRow_20Pin ==
  /\ family = "20"
  /\ pc = "rows"
  /\ type \notin {T_4116, T_4027}
  /\ RowPass("20", Wr("rand20", patNr, row, invCount, 0), ramTypes[type].columns,
             RetentionRows(row, ramTypes[type].rows - 1, ramTypes[type].delayRows),
             4, 3, ramTypes[type].rows, AfterTests20(type), Sreg(TRUE, TRUE))
  /\ RowFrame

\* refreshTimeTest_20Pin: the nibble written to column col of row r
RefreshData20(tab, rows) ==
  [r \in 0..(rows - 1) |->
     [col \in 0..1 |-> ((tab[r % 256] % 16) \div Pow2(2 * col)) % 16]]

refreshTimeTest_20Pin ==
  /\ family = "20"
  /\ RefreshTest("20", ramTypes[type].rows, 2, 16,
                 RefreshData20(randomTable, ramTypes[type].rows))

-----------------------------------------------------------------------------
(* 20-pin family: the 4116 / 4027 adapter                                  *)

\* detect_4027: write_4116_00(1); if (read_4116_00() == 0) error(0, 0)
detect_4027_present ==
  /\ family = "20"
  /\ pc = "present4116"
  /\ \E res \in {Bus(chip, cells, rowTag,
                     <<write_4116(0, 0, 1), read_4116(0, 0)>>, 1, <<>>)} :
       /\ cells' = res.cells
       /\ Found(res.out # <<0>>, "detect4027")
  /\ type' = type
  /\ SenseFrame

\* detect_4027: the test of the A6 / CS pin, and the assignment of its
\* result to type in test_4116_logic
detect_4027 ==
  /\ family = "20"
  /\ pc = "detect4027"
  /\ \E res \in {Bus(chip, cells, rowTag,
                     <<write_4116(64, 64, 1), write_4116(64, 65, 0), read_4116(64, 64),
                       read_4116(64, 65)>>, 1, <<>>)} :
       /\ cells' = res.cells
       /\ type' = IF res.out = <<1, 0>> THEN T_4116 ELSE T_4027
  /\ Goto("writeRAMType")
  /\ SenseFrame

\* checkAddressing_4116: one pass of the row loop
checkAddressing_4116_row ==
  /\ family = "20"
  /\ pc = "addrRow"
  /\ type \in {T_4116, T_4027}
  /\ \E res \in {Bus(chip, cells, rowTag,
                     <<write_4116(0, 0, 0), write_4116(PeerAddr(bitIdx), 0, 1),
                       read_4116(0, 0), read_4116(PeerAddr(bitIdx), 0)>>, 1, <<>>)} :
       /\ cells' = res.cells
       /\ Probed(res.out # <<0, 1>>, RowCode(bitIdx), bitIdx,
                 AddrBits(ramTypes[type].rows), "addrRow", "addrCol")
  /\ ProbeFrame

\* checkAddressing_4116: one pass of the column loop
checkAddressing_4116_col ==
  /\ family = "20"
  /\ pc = "addrCol"
  /\ type \in {T_4116, T_4027}
  /\ \E fixed_row \in {IF ramTypes[type].rows > 64 THEN 64 ELSE 0} :
     \E res \in {Bus(chip, cells, rowTag,
                     <<write_4116(fixed_row, 0, 0), write_4116(fixed_row, PeerAddr(bitIdx), 1),
                       read_4116(fixed_row, 0), read_4116(fixed_row, PeerAddr(bitIdx))>>,
                     1, <<>>)} :
       /\ cells' = res.cells
       /\ Probed(res.out # <<0, 1>>, ColCode(bitIdx), bitIdx,
                 AddrBits(ramTypes[type].columns), "addrCol", "rows")
  /\ ProbeFrame

\* writeRow_4116(row, patNr), with the step of the row loop of
\* test_4116_logic that follows it. Patterns 0 and 1 are read back cell by
\* cell right after each write and report the pattern byte as the code.
writeRow_4116 ==
  /\ family = "20"
  /\ pc = "rows"
  /\ type \in {T_4116, T_4027}
  /\ RowPass("4116",
             Wr(IF patNr < 2 THEN "fix4116" ELSE IF patNr < 4 THEN "rot4116"
                ELSE "rand4116", patNr, row, invCount, 0),
             ramTypes[type].columns,
             IF patNr < 4 THEN <<row>>
             ELSE RetentionRows(row, ramTypes[type].rows - 1, ramTypes[type].delayRows),
             IF patNr < 2 THEN pattern[patNr + 1] ELSE patNr + 1,
             IF patNr < 4 THEN 2 ELSE 3, ramTypes[type].rows, "testOK",
             Sreg(TRUE, TRUE))
  /\ RowFrame

-----------------------------------------------------------------------------
(* common.cpp: the reporting routines                                      *)

\* a revision 3.1.1 routine with cases for the kinds 0..3 only
Kinds311Fewer == 0..3

\* the kinds for which the second switch of the revision 3.1.1 routine has
\* a case
Kinds311 == 0..4

\* error(code, kind): entered with pc = "error"; every pass of the blink
\* loop toggles the LED. The revision 3.1.1 routine leaves its switch and
\* returns when no case matches.
error ==
  /\ pc = "error"
  /\ IF rev = "3.1.1" /\ ekind \notin Kinds311
     THEN /\ pc' = "returned"
          /\ UNCHANGED ledVars
     ELSE /\ pc' = "error"
          /\ led' = 1 - led
          /\ blinks' = IF led = 1 THEN Min(blinks + 1, MaxBlinks) ELSE blinks
  /\ ev' = <<>>
  /\ UNCHANGED <<fixVars, interrupts, type, memVars, halfVars, loopVars, tableVars,
                 typeSuffix, shown, histVars, errVars>>

\* testOK() returning to its caller
testOKReturns ==
  /\ pc = "testOK"
  /\ pc' = "returned"
  /\ ev' = <<>>
  /\ UNCHANGED <<fixVars, interrupts, type, memVars, halfVars, loopVars, tableVars,
                 typeSuffix, shown, histVars, errVars, ledVars>>

\* testOK(): every pass of the blink loop toggles the LED
testOK ==
  /\ pc = "testOK"
  /\ pc' = "testOK"
  /\ led' = 1 - led
  /\ blinks' = IF led = 1 THEN Min(blinks + 1, MaxBlinks) ELSE blinks
  /\ ev' = <<>>
  /\ UNCHANGED <<fixVars, interrupts, type, memVars, halfVars, loopVars, tableVars,
                 typeSuffix, shown, histVars, errVars>>

-----------------------------------------------------------------------------
(* A complete run of a family routine                                      *)

Start(chips, pos) ==
  /\ chip \in chips
  /\ pc = pos
  /\ type = NoType
  /\ bitIdx = 0
  /\ patNr = 0
  /\ row = 0
  /\ cells = << >>
  /\ rowTag = [pr \in 0..(chip.rows - 1) |-> NoWr]
  /\ error_in_lower_half = 0
  /\ error_in_upper_half = 0
  /\ chip_half_status = 0
  /\ typeSuffix = ""
  /\ invCount = 0
  /\ randomTable = generateRandomTable
  /\ shown = ""
  /\ led = 0
  /\ blinks = 0
  /\ written = {}
  /\ checked = {}
  /\ ev = <<>>
  /\ interrupts = TRUE
  /\ ports = <<0, 0, 0>>
  /\ ip = 0

\* error() has not been called; the reporting routine is that of 4.0.5
NoError ==
  /\ rev = "4.0.5"
  /\ ecode = -1
  /\ ekind = -1
  /\ erow = -1
  /\ ecol = -1

Init ==
  \/ family = "16" /\ Start(Chips16, "present") /\ NoError
  \/ family = "18" /\ Start(Chips18, "present") /\ NoError
  \/ family = "20" /\ Start(Chips20, "adapter") /\ NoError

Next ==
  \/ ram_present_16Pin
  \/ sense41256_16Pin_check
  \/ sense41256_16Pin
  \/ detect41257_16Pin
  \/ writeRAMType_16Pin
  \/ checkAddressing_16Pin_row
  \/ checkAddressing_16Pin_col
  \/ run_16Pin_tests_begin
  \/ fastPatternTest_16Pin
  \/ writeRow_16Pin
  \/ invertTable
  \/ run_16Pin_tests_end
  \/ refreshTimeTest_16Pin
  \/ ram_present_18Pin
  \/ sense4464_18Pin
  \/ ram_present_18Pin_alt
  \/ sense411000_18Pin_Alt
  \/ writeRAMType_18Pin
  \/ checkAddressing_18Pin_rowWrite
  \/ checkAddressing_18Pin_row
  \/ checkAddressing_18Pin_colWrite
  \/ checkAddressing_18Pin_col
  \/ writeRow_18Pin
  \/ refreshTimeTest_18Pin
  \/ checkAddressing_18Pin_Alt_row
  \/ checkAddressing_18Pin_Alt_col
  \/ writeRow_18Pin_Alt
  \/ refreshTimeTest_18Pin_Alt
  \/ test_4116
  \/ ram_present_20Pin
  \/ senseRAM_20Pin
  \/ senseSCRAM_20Pin
  \/ writeRAMType_20Pin
  \/ checkAddressing_20Pin_rowWrite
  \/ checkAddressing_20Pin_row
  \/ checkAddressing_20Pin_colWrite
  \/ checkAddressing_20Pin_col
  \/ fastPatternTest_20Pin
  \/ writeRow_20Pin
  \/ refreshTimeTest_20Pin
  \/ detect_4027_present
  \/ detect_4027
  \/ checkAddressing_4116_row
  \/ checkAddressing_4116_col
  \/ writeRow_4116
  \/ error
  \/ testOK

Spec == Init /\ [][Next]_vars

\* the family routines run to their end: the main loop of the firmware calls
\* one of them and no other code runs beside it, so a step that can be taken
\* is taken
FairSpec == Init /\ [][Next]_vars /\ WF_vars(Next)

-----------------------------------------------------------------------------
(* The reporting routine error() on its own, entered with every kind in    *)
(* both revisions                                                          *)

\* the codes error() is entered with
ErrCodes == 0..31

\* the kinds error() is entered with
ErrKinds == 0..5

InitErr ==
  /\ family = "16"
  /\ Start({Good16(128)}, "error")
  /\ rev \in {"3.1.1", "4.0.5"}
  /\ ecode \in ErrCodes
  /\ ekind \in ErrKinds
  /\ erow = -1
  /\ ecol = -1

NextErr == error

SpecErr == InitErr /\ [][NextErr]_vars



-----------------------------------------------------------------------------
(* The address setters on their own, called with every address of their    *)
(* range the way the row loops call them: setAddr16_Random for the 16-pin  *)
(* routines, setAddr_18Pin_Alt for the 18-pin alt routines                 *)

\* the addresses of a family's setter
AddrRange(f) == IF f = "16" THEN 0..511 ELSE 0..1023

InitAddr ==
  /\ family \in {"16", "18"}
  /\ Start({NoChip(0)}, "setAddr")
  /\ NoError

\* rasHandling: the setter is called with the loop variable
setAddr ==
  /\ pc = "setAddr"
  /\ ports' = IF family = "16" THEN setAddr16_Ports(row) ELSE setAddr_18Pin_Alt(row)
  /\ pc' = "addrSet"
  /\ UNCHANGED <<family, chip, rev, ip, interrupts, type, memVars, halfVars, loopVars,
                 tableVars, typeSuffix, shown, histVars, errVars, ledVars, ev>>

\* the loop goes on to the next address
nextAddr ==
  /\ pc = "addrSet"
  /\ row + 1 \in AddrRange(family)
  /\ row' = row + 1
  /\ pc' = "setAddr"
  /\ UNCHANGED <<fixVars, interrupts, type, memVars, halfVars, bitIdx, patNr,
                 tableVars, typeSuffix, shown, histVars, errVars, ledVars, ev>>

NextAddr == setAddr \/ nextAddr

SpecAddr == InitAddr /\ [][NextAddr]_vars
-----------------------------------------------------------------------------
(* Properties                                                              *)

\* the stage a position belongs to: 1 presence sensing, 2 type sensing,
\* 3 address-line verification, 4 pattern passes, 5 refresh-counter test,
\* 6 testOK(), 7 error(), 8 back in the caller
StageOf(p) ==
  CASE p \in {"adapter", "present", "presentAlt", "present4116"} -> 1
    [] p \in {"sense", "senseA8", "detect41257", "senseAlt", "senseSC", "detect4027",
              "writeRAMType"} -> 2
    [] p \in {"addrRowWrite", "addrRow", "addrColWrite", "addrCol"} -> 3
    [] p \in {"runTests", "fast", "rows", "invert", "classify"} -> 4
    [] p = "refresh" -> 5
    [] p = "testOK" -> 6
    [] p = "error" -> 7
    [] OTHER -> 8

\* C1: every step of a family routine stays in its stage, enters the next
\* stage, or enters error(); the pattern stage is entered with pattern 0 from
\* the address-line verification, the pattern number goes up by one at a
\* time, and the pattern stage is left, for the refresh-counter test or for
\* testOK(), with pattern 5 only.
StageOrder ==
  [][ /\ \/ StageOf(pc') = StageOf(pc)
         \/ StageOf(pc') = StageOf(pc) + 1
         \/ StageOf(pc) = 4 /\ pc' = "testOK"
         \/ StageOf(pc) < 6 /\ pc' = "error"
      /\ StageOf(pc) < 4 /\ StageOf(pc') = 4 => patNr' = 0
      /\ StageOf(pc) = 4 /\ StageOf(pc') = 4 => patNr' \in {patNr, patNr + 1}
      /\ StageOf(pc) = 4 /\ StageOf(pc') \in {5, 6} => patNr = 5 ]_vars

\* a run has gone through all stages, the refresh-counter test included
StageOrderWitness == pc = "testOK" /\ patNr = 5 /\ invCount = 1 /\ type = T_514400

\* the terminal positions of a run
Terminal == {"error", "testOK"}

\* the place of a position in the text of the family routines
PosOf(p) ==
  CASE p = "adapter" -> 0
    [] p = "present" -> 1
    [] p = "present4116" -> 2
    [] p = "sense" -> 3
    [] p = "senseA8" -> 4
    [] p = "detect41257" -> 5
    [] p = "presentAlt" -> 6
    [] p = "senseAlt" -> 7
    [] p = "senseSC" -> 8
    [] p = "detect4027" -> 9
    [] p = "writeRAMType" -> 10
    [] p = "addrRowWrite" -> 11
    [] p = "addrRow" -> 12
    [] p = "addrColWrite" -> 13
    [] p = "addrCol" -> 14
    [] p = "runTests" -> 15
    [] p \in {"fast", "rows", "invert"} -> 16
    [] p = "classify" -> 17
    [] p = "refresh" -> 18
    [] OTHER -> 19

\* how far a run has come: the position, and inside a loop the loop
\* variables; no run gets further than the terminal positions
Progress ==
  PosOf(pc) * 100000
  + (IF pc \in {"addrRow", "addrCol"} THEN bitIdx ELSE 0)
  + (IF pc \in {"fast", "rows", "invert"}
     THEN patNr * 4096 + 2 * row + (IF pc = "invert" THEN 0 ELSE 1) ELSE 0)

-----------------------------------------------------------------------------
(* Retention read-backs                                                    *)

\* the table entry of the chip type that the row loops of the family use
PassDef == IF family = "16" THEN ramTypes16[type] ELSE ramTypes[type]

\* the run is in a pass with deferred read-backs, before its call for row
RetentionPass == pc = "rows" /\ patNr >= 4

\* s is the beginning of t
IsPrefix(s, t) == Len(s) <= Len(t) /\ \A i \in 1..Len(s) : s[i] = t[i]

\* C7: in a pass 4 or 5, when the rows below row are written, the rows read
\* back are those with delayRows rows written after them, no row more: row
\* r is read back in the call that writes row r + delayRows, after that
\* write.
RetentionAfterDelay ==
  (RetentionPass /\ row > 0) =>
     /\ written = 0..(row - 1)
     /\ checked = {r \in written : r + PassDef.delayRows <= row - 1}
     /\ ev[1] = Ev("W", row - 1)
     /\ \A i \in 2..Len(ev) : ev[i] = Ev("C", row - 1 - PassDef.delayRows)

\* a row has been read back delayRows = 5 rows after its write
RetentionAfterDelayWitness ==
  /\ RetentionPass /\ row = 9 /\ PassDef.delayRows = 5
  /\ ev = <<Ev("W", 8), Ev("C", 3)>>

\* C8: the call that writes the last row of a pass 4 or 5 finds the last
\* delayRows rows not read back yet and reads back, after its write, the
\* rows last - delayRows .. last in ascending order (up to the first that
\* differs, where it leaves with error()).
TrailingRowsChecked ==
  [][(RetentionPass /\ row = PassDef.rows - 1) =>
       LET k == PassDef.delayRows
           full == <<Ev("W", row)>> \o [i \in 1..(k + 1) |-> Ev("C", row - k + i - 1)]
       IN  /\ \A r \in (row - k)..row : r \notin checked
           /\ Len(ev') >= 2
           /\ IsPrefix(ev', full)
           /\ (pc' # "error") => (ev' = full)]_vars

\* the trailing rows of a pass 5 have been read back after the last write
TrailingRowsCheckedWitness ==
  /\ pc = "testOK" /\ family = "20" /\ type = T_4027 /\ blinks = 0 /\ patNr = 5
  /\ ramTypes[type].delayRows = 2
  /\ ev = <<Ev("W", 63), Ev("C", 61), Ev("C", 62), Ev("C", 63)>>

-----------------------------------------------------------------------------
(* Half-good tracking, chip type and interrupt flag                        *)

\* C11: the half flags are set to 0 by the entry of run_16Pin_tests, only
\* gain bits during the pattern passes and change nowhere else; from the
\* start of the address-line verification on the type changes only in the
\* classification after the last row of pattern 5, which is passed once.
HalfStateLifecycle ==
  [][ /\ (family = "16" /\ pc = "runTests")
           => (error_in_lower_half' = 0 /\ error_in_upper_half' = 0 /\ patNr' = 0)
      /\ (pc \in {"fast", "rows"})
           => /\ And8(error_in_lower_half', error_in_lower_half) = error_in_lower_half
              /\ And8(error_in_upper_half', error_in_upper_half) = error_in_upper_half
      /\ (pc \notin {"runTests", "fast", "rows"}) => UNCHANGED halfVars
      /\ (StageOf(pc) >= 3 /\ type' # type)
           => /\ pc = "classify" /\ patNr = 5 /\ row = PassDef.rows - 1
              /\ type' = Subtype16(type, error_in_lower_half, error_in_upper_half)
      /\ (pc = "classify") => (StageOf(pc') > 4) ]_vars

\* the flags of a chip whose upper column half differs, at the
\* classification
HalfStateLifecycleWitness ==
  pc = "classify" /\ error_in_lower_half = 1 /\ error_in_upper_half = 3 /\ type = T_4164

\* C12: between two calls of the row routines, and after the last, the
\* interrupts are enabled.
InterruptsRestored ==
  (pc \in {"rows", "invert", "classify", "refresh", "testOK"}) => interrupts

\* C13 as stated: from the start of the address-line verification to the
\* terminal state the type keeps its value.
TypeImmutable == [][(StageOf(pc) \in 3..7) => (type' = type)]_vars

\* C13: from the start of the address-line verification on the type keeps
\* its value during the verification, the pattern passes, the refresh test
\* and in the terminal states; it changes once at most, in the
\* classification after pattern 5, from T_4164 to T_3732.
TypeImmutableUntilClassified ==
  [][(StageOf(pc) \in 3..7 /\ type' # type)
       => (pc = "classify" /\ patNr = 5 /\ type = T_4164 /\ type' = T_3732)]_vars

\* a run has ended with the type set by the classification
TypeImmutableUntilClassifiedWitness ==
  pc = "testOK" /\ type = T_3732 /\ blinks = 1 /\ chip.rows = 256

-----------------------------------------------------------------------------
(* Error kinds and the random table                                        *)

\* the kind of failure a position of the run can find
KindAt(p, pat_nr) ==
  CASE StageOf(p) \in {1, 2} -> 0
    [] StageOf(p) = 3 -> 1
    [] p = "fast" -> 2
    [] p = "rows" -> IF pat_nr < 4 THEN 2 ELSE 3
    [] p = "refresh" -> 5
    [] OTHER -> -1

\* C18: a call of error() passes kind 0 from presence and type sensing, 1
\* from the address-line verification, 2 from a pass that reads each row
\* back right after its write, 3 from a pass with deferred read-backs and 5
\* from the refresh-counter test.
ErrorKindMatchesStage ==
  [][(pc # "error" /\ pc' = "error") => (ekind' = KindAt(pc, patNr))]_vars

\* the refresh-counter test has called error() with kind 5
ErrorKindMatchesStageWitness == pc = "error" /\ ekind = 5 /\ ecode = 0 /\ ~chip.cbr

\* C20: the table changes in one place, between the passes 4 and 5, when all
\* rows of pass 4 are written and read back, and there it is inverted; it
\* is the table as generated in the passes up to 4 and the inverted table
\* from the first write of pass 5 on.
TableInvertedOnce ==
  /\ [](StageOf(pc) \in 1..6 =>
          invCount = IF (StageOf(pc) = 4 /\ patNr = 5 /\ pc # "invert") \/ StageOf(pc) > 4
                     THEN 1 ELSE 0)
  /\ [][(pc = "invert") <=> (randomTable' # randomTable)]_vars
  /\ [][(pc = "invert")
          => /\ patNr = 5 /\ row = 0
             /\ written = 0..(Cardinality(written) - 1) /\ checked = written
             /\ ev[Len(ev)].op = "C"
             /\ randomTable' = invertRandomTable(randomTable)
             /\ pc' = "rows"]_vars

\* pass 5 writes its rows with the inverted table
TableInvertedOnceWitness ==
  pc = "rows" /\ patNr = 5 /\ row = 3 /\ invCount = 1
  /\ randomTable = invertRandomTable(TableAt(0))

-----------------------------------------------------------------------------
(* Address-line verification                                               *)

\* the chip has one stuck address bit and no other fault
SingleStuck(ch, pins) ==
  ch.pin \in pins /\ ch.sab.on # "no" /\ ch.bad = {} /\ ch.cbr /\ ~ch.sc /\ ~ch.cs

\* the code the verifier is to report for the stuck bit of the chip: the row
\* probes come first, so a bit stuck on the shared pin shows as a row bit
StuckCode(ch) == IF ch.sab.on = "col" THEN ch.sab.b + 16 ELSE ch.sab.b

\* C4 as stated: on a 16-pin chip with one stuck address bit the run does
\* not get past the address-line verification but by error(b, 1) for a row
\* bit b or error(b + 16, 1) for a column bit b.
StuckBitFound16 ==
  (family = "16" /\ SingleStuck(chip, {"16"}) /\ StageOf(pc) >= 4)
     => (pc = "error" /\ ekind = 1 /\ ecode = StuckCode(chip))

\* C4: on a 16-pin chip with one stuck address bit, a failure reported by
\* checkAddressing_16Pin names that bit (b for a row bit, b + 16 for a column
\* bit) and no other; the verifier runs to its end only if the stuck bit is
\* row bit 7 or bit 8, which the type sensing takes for a smaller type, and
\* a stuck row bit 0 ends the run before the verifier, in the presence
\* check, with error(0, 0).
StuckBitNamed16 ==
  (family = "16" /\ SingleStuck(chip, {"16"})) =>
     /\ (pc = "error") => (ekind \in {0, 1})
     /\ (pc = "error" /\ ekind = 1) => (ecode = StuckCode(chip))
     /\ (pc = "error" /\ ekind = 0) => (chip.sab.b = 0 /\ chip.sab.on # "col")
     /\ (StageOf(pc) \in 4..6) =>
          /\ chip.sab.on # "col" /\ chip.sab.b \in {7, 8}
          /\ chip.sab.b >= AddrBits(ramTypes16[type].rows) \/ type = T_4532

\* address bit A3 stuck low has been reported as error(3, 1)
StuckBitNamed16Witness ==
  /\ family = "16" /\ chip = [Good16(256) EXCEPT !.sab = StuckBit("pin", 3, 0)]
  /\ pc = "error" /\ ecode = 3 /\ ekind = 1 /\ blinks = 1

\* C5 as stated: on an 18-pin or 20-pin chip with one stuck address bit, a
\* failure reported by the verifiers that write all pairs first names that
\* bit.
StuckBitNamed1820 ==
  (SingleStuck(chip, {"18", "20"}) /\ pc = "error" /\ ekind = 1) => ecode = StuckCode(chip)

\* the base and the peer cycle of the probe of bit b at position p of the
\* verifiers of the 16-pin and the 20-pin routine
ProbeCycles(p, b) ==
  IF family = "16"
  THEN (IF p = "addrRow" THEN <<read16Pin(0, 0), read16Pin(PeerAddr(b), 0)>>
        ELSE <<read16Pin(ramTypes16[type].rows \div 2, 0),
               read16Pin(ramTypes16[type].rows \div 2, PeerAddr(b))>>)
  ELSE (IF p = "addrRow" THEN <<read20Pin(0, 0), read20Pin(PeerAddr(b), 0)>>
        ELSE <<read20Pin(ramTypes[type].rows \div 2, 0),
               read20Pin(ramTypes[type].rows \div 2, PeerAddr(b))>>)

\* the probe of bit b at position p fails on a chip with the cells cs: base
\* or peer do not read what was written to them
ProbeFails(p, b, cs) ==
  <<ReadCycle(chip, cs, rowTag, ProbeCycles(p, b)[1]),
    ReadCycle(chip, cs, rowTag, ProbeCycles(p, b)[2])>>
  # (IF family = "16" THEN <<0, 1>> ELSE <<0, 15>>)

\* the verifier steps of checkAddressing_16Pin and checkAddressing_20Pin
ProbeStep ==
  /\ pc \in {"addrRow", "addrCol"}
  /\ family = "16" \/ (family = "20" /\ type \notin {T_4116, T_4027})

\* the code of a probe of bit b at position p
ProbeCode(p, b) == IF p = "addrRow" THEN b ELSE b + 16

\* C6 as stated: a probe that fails ends in error() at that probe, with
\* kind 1 and the code of its bit, and a probe that does not fail does not.
ProbeFailureIsError ==
  [][ProbeStep =>
        /\ (pc' = "error") <=> ProbeFails(pc, bitIdx, cells')
        /\ (pc' = "error") => (ekind' = 1 /\ ecode' = ProbeCode(pc, bitIdx))]_vars

\* C6: a probe that fails ends in error() at that probe, with kind 1 and
\* the code of its bit (b for a row bit, b + 16 for a column bit), except
\* the probe of row bit 7 on a chip sensed as a 4532, whose result the
\* routine does not look at; a probe that does not fail goes on to the next.
\* After the error() no probe, pattern pass or refresh test follows: memory,
\* loop variables and the record of row operations stay as they are.
ProbeFailureTerminal ==
  /\ [][ProbeStep =>
          /\ (pc' = "error")
               <=> (ProbeFails(pc, bitIdx, cells')
                    /\ ~(family = "16" /\ type = T_4532 /\ pc = "addrRow" /\ bitIdx = 7))
          /\ (pc' = "error")
               => (ekind' = 1 /\ ecode' = ProbeCode(pc, bitIdx) /\ bitIdx' = bitIdx)]_vars
  /\ [][(StageOf(pc) = 3 /\ pc' = "error")
          => (ekind' = 1 /\ ecode' = ProbeCode(pc, bitIdx))]_vars
  /\ [][(pc = "error" /\ ekind = 1)
          => (pc' = "error" /\ UNCHANGED <<memVars, loopVars, histVars, type>>)]_vars

\* a column probe of the 20-pin verifier has failed and the run blinks
ProbeFailureTerminalWitness ==
  /\ family = "20" /\ type = T_514256 /\ pc = "error"
  /\ ekind = 1 /\ ecode = 19 /\ bitIdx = 3 /\ blinks = MaxBlinks

-----------------------------------------------------------------------------
(* Half-good chips                                                         *)

\* C9 as stated: once mismatches are recorded in both column halves of a
\* half-good candidate, the run is in error().
HalfGoodEscalates ==
  (family = "16" /\ HalfGoodType(type) /\ StageOf(pc) \in 4..7
   /\ And8(error_in_lower_half, 2) = 2 /\ And8(error_in_upper_half, 2) = 2)
     => pc = "error"

\* the 4164 whose columns 128..255 read v whatever was written
UpperColumnsStuck(v) == [Good16(256) EXCEPT !.bad = {Region(0, 255, 128, 255, v, FALSE)}]

-----------------------------------------------------------------------------
(* Sensing                                                                 *)

\* the chip decodes the row address a (the column address a) to the row
\* (column) of address 0
RowAliases(ch, a) == PhysRow(ch, PinAddr("16", a)) = PhysRow(ch, PinAddr("16", 0))
ColAliases(ch, a) == PhysCol(ch, PinAddr("16", a)) = PhysCol(ch, PinAddr("16", 0))

\* C14: a fault-free 256 x 256 chip, whose row 256 is row 0, has type 4164
\* from the end of sense41256_16Pin on.
Sensed4164 ==
  (family = "16" /\ chip = Good16(256) /\ StageOf(pc) >= 2
   /\ pc \notin {"sense", "senseA8", "error"})
     => (RowAliases(chip, 256) /\ type = T_4164)

\* the 256 x 256 chip is through the sensing
Sensed4164Witness ==
  family = "16" /\ chip = Good16(256) /\ pc = "writeRAMType" /\ type = T_4164

\* C15: the result of sense41256_16Pin on a chip whose cells (0, 0),
\* (128, 0), (256, 0) and (0, 128) work is 41256 if row A8 is decoded,
\* else 4164 if row A7 is decoded, else 4532 if column A7 is decoded, else
\* 4816.
SenseDecisionTree ==
  (family = "16" /\ chip.pin = "16" /\ pc \in {"detect41257", "writeRAMType"})
     => type = IF ~RowAliases(chip, 256) THEN T_41256
               ELSE IF ~RowAliases(chip, 128) THEN T_4164
               ELSE IF ~ColAliases(chip, 128) THEN T_4532
               ELSE T_4816

\* a chip whose row A7 is not decoded and whose column A7 is has been sensed
SenseDecisionTreeWitness ==
  /\ family = "16" /\ pc = "writeRAMType" /\ type = T_4532
  /\ RowAliases(chip, 128) /\ ~ColAliases(chip, 128)

\* C16: with no chip driving the data line the 16-pin and the 18-pin
\* routine end in error(0, 0) and reach neither the address-line
\* verification nor a pattern pass.
NoChipIsError00 ==
  (family \in {"16", "18"} /\ chip.pin = "none") =>
     /\ StageOf(pc) \in {1, 2, 7}
     /\ (pc = "error") => (ecode = 0 /\ ekind = 0)
     /\ written = {} /\ checked = {} /\ rowTag = [r \in DOMAIN rowTag |-> NoWr]

\* the 18-pin routine has ended in error(0, 0) on an empty socket
NoChipIsError00Witness ==
  /\ family = "18" /\ chip = NoChip(15) /\ pc = "error" /\ ecode = 0 /\ ekind = 0
  /\ blinks = 1

-----------------------------------------------------------------------------
(* Pattern passes                                                          *)

\* C17 as stated: a cell failure found by a pattern pass is reported with
\* code = pattern number + 1.
PatternCodePlusOne == (pc = "error" /\ ekind \in {2, 3}) => ecode = patNr + 1

\* the chip has no fault
FaultFree(ch) == ch.pin # "none" /\ ch.sab = NoSab /\ ch.bad = {}

\* the row write of the current pass for row r
PassWrite(r) ==
  CASE family = "16" -> Wr("rand16", patNr, r, invCount, 0)
    [] family = "18" /\ type = T_411000 -> Wr("rand18a", patNr, r, invCount, 0)
    [] family = "18" /\ type # T_411000 -> Wr("rand18", patNr, r, invCount, cshift18(type))
    [] family = "20" /\ type \in {T_4116, T_4027} -> Wr("rand4116", patNr, r, invCount, 0)
    [] OTHER -> Wr("rand20", patNr, r, invCount, 0)

\* SET_DIN_16(d): the level of the data line, d & 0x04
SET_DIN_16(d) == BitOf(d, 2)

\* data0 .. data3 of the nibble paths for the table byte d
NibbleData(d) == <<d, d \div 2, (d * 2) % 256, (d * 4) % 256>>

\* writeRow_16Pin, nibble path: the level written in the n-th CAS cycle of
\* the RAS cycle of column col of row r
NibbleWrite(tab, col, r, n) == SET_DIN_16(NibbleData(tab[mix8(col, r)])[n])

\* checkRow_16Pin, nibble path: the level of DOUT in the n-th CAS cycle of
\* column col of row r that leaves bit 2 of PINC ^ data clear
NibbleExpect(tab, col, r, n) == BitOf(NibbleData(tab[mix8(col, r)])[n], 2)

-----------------------------------------------------------------------------
(* The random table under inversion                                        *)

\* C21: inverting the table twice gives the table back, entry for entry, in
\* every state of a run (the generated table before and after the inversion
\* between the passes 4 and 5), and the same holds for the literal table of
\* revision 3.1.1 under its randomizeData().
InvertIsInvolution ==
  /\ DOMAIN randomTable = 0..255
  /\ invertRandomTable(invertRandomTable(randomTable)) = randomTable
  /\ randomizeData(randomizeData(randomTable311)) = randomTable311

\* the table of pass 5 is the inverted one, differs from the generated table
\* in every entry, and a further inversion gives the generated table back
InvertIsInvolutionWitness ==
  /\ pc = "rows" /\ patNr = 5 /\ row = 1 /\ invCount = 1
  /\ \A i \in 0..255 : randomTable[i] = 15 - generateRandomTable[i]
  /\ invertRandomTable(randomTable) = generateRandomTable

-----------------------------------------------------------------------------
(* The fixed patterns on a chip without faults                             *)

\* C22: on a chip without faults every cell of a row written with one of the
\* patterns 0..3 reads back as the read-back expects it, in every family's
\* writer, and no step of a pass 0..3 on such a chip ends in error().
GoodChipPassesFixedPatterns ==
  /\ [](\A d \in FixedWrites : PlainTab[d] = {})
  /\ [][(FaultFree(chip) /\ pc \in {"fast", "rows"} /\ patNr <= 3) => pc' # "error"]_vars

\* a 20-pin chip without faults has passed the patterns 0..3, all of its
\* rows written and read back in pass 3
GoodChipPassesFixedPatternsWitness ==
  /\ FaultFree(chip) /\ family = "20" /\ type = T_514256
  /\ pc = "rows" /\ patNr = 4 /\ row = 0 /\ invCount = 0
  /\ written = 0..511 /\ checked = 0..511

-----------------------------------------------------------------------------
(* The patterns 2 and 3 column by column                                   *)

\* the row write of a pass 0..3 for row r
PatternWrite(r) ==
  CASE family = "16" -> Wr("fast16", patNr, r, invCount, 0)
    [] family = "18" /\ type = T_411000 ->
         Wr(IF patNr < 2 THEN "fix18a" ELSE "rot18a", patNr, r, invCount, 0)
    [] family = "18" /\ type # T_411000 ->
         Wr("pat18", patNr, r % 256, invCount, cshift18(type))
    [] family = "20" /\ type \in {T_4116, T_4027} ->
         Wr(IF patNr < 2 THEN "fix4116" ELSE "rot4116", patNr, r, invCount, 0)
    [] OTHER -> Wr("fast20", patNr, 0, invCount, 0)

\* the columns such a row write goes through
PatternColumns ==
  CASE family = "16" -> (IF ramTypes16[type].columns > 256 THEN 512 ELSE 256)
    [] family = "18" /\ type = T_411000 -> 1024
    [] OTHER -> ramTypes[type].columns

\* the wiring a family routine drives
PatternVia ==
  CASE family = "16" -> "16"
    [] family = "18" /\ type = T_411000 -> "18a"
    [] family = "18" /\ type # T_411000 -> "18"
    [] family = "20" /\ type \in {T_4116, T_4027} -> "4116"
    [] OTHER -> "20"

\* the data the row write d drives when it addresses its column c
ColData(d, c) ==
  WriteData(d, randomTable, IF d.w = "fast16" THEN FastPosTab[Addr16Tab[c]] ELSE c)

\* the part of a pattern byte that a writer puts on the data lines
DataLines(w, byte) ==
  CASE w = "fast16" -> BitOf(byte, 2)
    [] w \in {"fix18a", "rot18a"} -> BitOf(byte, 3)
    [] w \in {"fix4116", "rot4116"} -> byte % 2
    [] OTHER -> byte % 16

\* the byte of pattern p (2: 0xAA, 3: 0x55) after c rotations by one bit
RotatedByte(p, c) == IF (p + c) % 2 = 0 THEN 170 ELSE 85

\* a pass with pattern 2 or 3 is about to write a row
InPass23 == pc \in {"fast", "rows"} /\ patNr \in {2, 3}

\* C23 as stated: in every family's writer the pattern byte of the patterns 2
\* and 3 is rotated by one bit from each column to the next.
RotatedEachColumn ==
  InPass23 =>
    \A c \in 0..(PatternColumns - 1) :
       ColData(PatternWrite(row), c) = DataLines(PatternWrite(row).w, RotatedByte(patNr, c))

\* C23: the writers of the one-bit chips (16-pin, 18-pin alt, 4116/4027)
\* drive each column with the pattern byte rotated once more than for the
\* column before; the writers of the four-bit chips (18-pin, 20-pin) drive
\* every column with the same low nibble of the pattern byte. The rows of a
\* pass 2 or 3 are written that way.
RotatedInOneBitWriters ==
  /\ [](\A p \in {2, 3} : \A c \in 0..7 : RotN(pattern[p + 1], c) = RotatedByte(p, c))
  /\ [](InPass23 =>
          \A c \in 0..(PatternColumns - 1) :
             ColData(PatternWrite(row), c)
               = IF PatternVia \in {"16", "18a", "4116"}
                 THEN DataLines(PatternWrite(row).w, RotatedByte(patNr, c))
                 ELSE (IF patNr = 2 THEN 10 ELSE 5))
  /\ [][(InPass23 /\ chip.pin = PatternVia /\ pc' # "error")
          => rowTag'[PhysRow(chip, PinAddr(PatternVia, row))] = PatternWrite(row)]_vars

\* the 4116 routine has written row 0 in pass 2, its columns 0 and 1 with
\* the bits 0 and 1
RotatedInOneBitWritersWitness ==
  /\ family = "20" /\ type = T_4116 /\ chip = Good4116
  /\ pc = "rows" /\ patNr = 2 /\ row = 1
  /\ rowTag[PhysRow(chip, PinAddr("4116", 0))] = Wr("rot4116", 2, 0, 0, 0)
  /\ ColData(rowTag[PhysRow(chip, PinAddr("4116", 0))], 0) = 0
  /\ ColData(rowTag[PhysRow(chip, PinAddr("4116", 0))], 1) = 1

-----------------------------------------------------------------------------
(* The cells a pass goes through                                           *)

\* the ramTypes entry the pattern loop of the family routine works with
PassGeometry == IF family = "16" THEN ramTypes16[type] ELSE ramTypes[type]

\* the row write of the current pass for row r
RowWriteOf(r) == IF patNr < 4 THEN PatternWrite(r) ELSE PassWrite(r)

\* the CAS cycles of a row write or read-back of the current pass
RowCycles == IF patNr < 4 THEN PatternColumns ELSE PassGeometry.columns

\* the step ends a pass: the pattern loop goes on to the next pattern or
\* is left after pattern 5
PassEnd ==
  /\ pc \in {"fast", "rows"}
  /\ pc' # "error"
  /\ patNr' # patNr \/ pc' \notin {"fast", "rows"}

-----------------------------------------------------------------------------
(* The address tables                                                      *)

\* C25: for every 16-pin address a in 0..511 the OR of the entries a & 31 of
\* the low tables and a >> 5 of the high tables is the entry a of the
\* monolithic table of revision 3.0.1, for PORTB, PORTC and PORTD; the
\* setter leaves these values on the ports.
SplitEqualsCombined ==
  /\ \A a \in 0..511 : \A p \in 1..3 :
        Or8(lut_16_low[a % 32][p], lut_16_high[a \div 32][p]) = lut_combined[a][p]
  /\ (family = "16" /\ pc = "addrSet") => ports = lut_combined[row]

\* the setter was called with 357 = 0x165: PB0 (A6), PC4 and PC0 (A0, A8),
\* PD7 and PD0 (A5, A2)
SplitEqualsCombinedWitness ==
  family = "16" /\ pc = "addrSet" /\ row = 357 /\ ports = <<1, 17, 129>>

\* the address bits a family's setter puts on the ports for the address a
PortsOf(f, a) == IF f = "16" THEN setAddr16_Ports(a) ELSE setAddr_18Pin_Alt(a)

\* C26: the address setters of the 16-pin family (addresses 0..511) and of
\* the 18-pin alt family (addresses 0..1023) put a bit pattern of its own on
\* the ports for every address of the range: no other address of the range
\* gives the pattern on the ports, and on the 16-pin wiring the chip's pins
\* A0..A8 carry the address itself.
ScrambleIsBijection ==
  (pc = "addrSet") =>
     /\ \A b \in AddrRange(family) : PortsOf(family, b) = ports => b = row
     /\ family = "16" => PinAddr16(ports[1], ports[2], ports[3]) = row

\* the 18-pin alt setter was called with 645 = 0x285: PB4 and PB0 (A7, A9),
\* PC4 (A0), PD1 (A2)
ScrambleIsBijectionWitness ==
  family = "18" /\ pc = "addrSet" /\ row = 645 /\ ports = <<17, 16, 2>>

-----------------------------------------------------------------------------
(* The refresh-counter tests                                               *)

RefreshWritesEightColumns ==
  [][(pc = "refresh" /\ FaultFree(chip) /\ chip.pin = PatternVia)
       => DOMAIN cells' = (0..(PassGeometry.rows - 1)) \X (0..7)]_vars

\* C28: the refresh tests of the one-bit chips (41256, 411000) write the 8
\* bits of a table byte to the columns 0..7 of every row, those of the
\* four-bit chips (4464, 514256, 514400 and their static-column kinds) write
\* the columns 0 and 1 of every row; after the refresh phase the same
\* columns of every row are read back, so a chip whose refresh counter works
\* passes and a chip whose counter does not count ends in error(0, 5).
RefreshColumnsByWidth ==
  [][(pc = "refresh" /\ FaultFree(chip) /\ chip.pin = PatternVia)
       => /\ DOMAIN cells'
               = (0..(PassGeometry.rows - 1))
                   \X (0..(IF PatternVia \in {"16", "18a"} THEN 7 ELSE 1))
          /\ \A i \in 1..(2 * PassGeometry.rows) :
                ev'[i] = IF i % 2 = 1 THEN Ev("W", (i - 1) \div 2) ELSE Ev("R", 1)
          /\ chip.cbr => (pc' = "testOK" /\ ev'[Len(ev') - 1] = Ev("C", PassGeometry.rows - 1))
          /\ ~chip.cbr => (pc' = "error" /\ ecode' = 0 /\ ekind' = 5)]_vars

\* the refresh test of a 514256 has passed, with the columns 0 and 1 of its
\* 512 rows written
RefreshColumnsByWidthWitness ==
  /\ family = "20" /\ type = T_514256 /\ chip = Good514256 /\ pc = "testOK"
  /\ blinks = 0 /\ led = 0
  /\ DOMAIN cells = (0..511) \X (0..1)
  /\ ev[1025] = Ev("R", 512)

-----------------------------------------------------------------------------
(* The display                                                             *)

\* C29: the step that calls writeRAMType() changes the text on the display
\* and nothing the test logic reads: the type, the half-good flags, the
\* random table, the loop variables, the chip's contents and the I flag stay
\* as they are, no DRAM operation is made, and the run goes on with the
\* address-line verifier as it would without the call.
DisplayHasNoEffect ==
  [][(pc = "writeRAMType")
       => /\ UNCHANGED <<family, chip, type, memVars, halfVars, tableVars, loopVars,
                         histVars, typeSuffix, interrupts, errVars, ledVars>>
          /\ ev' = <<>>
          /\ shown' # shown
          /\ pc' = IF family = "16" \/ type \in {T_411000, T_4116, T_4027}
                   THEN "addrRow" ELSE "addrRowWrite"]_vars

\* the 16-pin routine has put the text for a chip sensed as 4164 on the
\* display and stands before the first probe of the verifier
DisplayHasNoEffectWitness ==
  /\ family = "16" /\ pc = "addrRow" /\ type = T_4164 /\ shown = "4164/3732(?)"
  /\ bitIdx = 0 /\ patNr = 0 /\ row = 0 /\ written = {} /\ ev = <<>>

-----------------------------------------------------------------------------
(* Retention read-backs, row by row                                        *)

\* the writeRow calls of a pass 4 or 5 for the ramTypes entry def make as
\* many read-backs as the pass has rows, and every row of the pass is among
\* the rows read back: each row is read back once
RetentionOnceIn(def) ==
  LET Calls == {x \in (0..(TotalRows(def) - 1)) \X (1..6) :
                  x[2] <= Len(RetentionRows(x[1], def.rows - 1, def.delayRows))}
  IN  /\ Cardinality(Calls) = TotalRows(def)
      /\ {RetentionRows(x[1], def.rows - 1, def.delayRows)[x[2]] : x \in Calls}
           = 0..(TotalRows(def) - 1)

RetentionOnceAllTypes ==
  \A t \in 0..14 : RetentionOnceIn(ramTypes[t]) /\ RetentionOnceIn(ramTypes16[t])

\* C30: in a pass 4 or 5 every row written in the pass is read back for
\* retention once: for every ramTypes entry (the 41257 with the 256 rows of
\* its pass among them) the calls of the pass read back each row of the pass
\* once; in a run no call reads back a row that was read back before in the
\* pass or reads a row twice, and at the end of the pass the rows read back
\* are the rows written.
RetentionExactlyOnce ==
  /\ []RetentionOnceAllTypes
  /\ [][(pc = "rows" /\ patNr >= 4)
          => /\ \A i \in 1..Len(ev') :
                   ev'[i].op = "C"
                     => /\ ev'[i].r \notin (IF row = 0 THEN {} ELSE checked)
                        /\ \A j \in 1..Len(ev') : ev'[j] = ev'[i] => j = i
             /\ PassEnd => checked' = written']_vars

\* pass 5 has ended on a 4116: the call for the last row has read back the
\* rows 125, 126 and 127, and all 128 rows are written and read back
RetentionExactlyOnceWitness ==
  /\ family = "20" /\ type = T_4116 /\ pc = "testOK" /\ patNr = 5
  /\ blinks = 0 /\ led = 0
  /\ ev = <<Ev("W", 127), Ev("C", 125), Ev("C", 126), Ev("C", 127)>>
  /\ written = 0..127 /\ checked = 0..127

-----------------------------------------------------------------------------
(* The routines at the level of the control lines                          *)
(*                                                                         *)
(* RAS, CAS, WE and OE are bits of PORTB and PORTC; a routine drives them  *)
(* with single-bit operations (SBI / CBI, PORTx |= bit, PORTx &= ~bit). A  *)
(* routine is given here by the operations on the control bits that it     *)
(* makes for its arguments, in the order of its text. The operations on    *)
(* the address and data bits in between (setAddr18Pin, setData18Pin,       *)
(* setAddr_18Pin_Alt, SET_DIN, msbHandling_20Pin, PORTD = col, PORTC = io  *)
(* | data, the pull-ups of configDataIn_18Pin) leave the control bits as   *)
(* they are and are left out. The column loops of a row make the same      *)
(* operations for every column and are run for SigCols columns.            *)

\* columns of a row that a column loop is followed through
SigCols == 3

\* the bit of a control line of a wiring: ports[p], bit b
LineBit(via, line) ==
  CASE via = "16" ->
         (CASE line = "RAS" -> [p |-> 1, b |-> 1]
            [] line = "CAS" -> [p |-> 2, b |-> 3]
            [] line = "WE" -> [p |-> 1, b |-> 3])
    [] via = "18" ->
         (CASE line = "RAS" -> [p |-> 2, b |-> 4]
            [] line = "CAS" -> [p |-> 2, b |-> 2]
            [] line = "OE" -> [p |-> 2, b |-> 0]
            [] line = "WE" -> [p |-> 1, b |-> 1])
    [] via = "18a" ->
         (CASE line = "RAS" -> [p |-> 1, b |-> 3]
            [] line = "CAS" -> [p |-> 2, b |-> 2]
            [] line = "WE" -> [p |-> 2, b |-> 1])
    [] via = "20" ->
         (CASE line = "CAS" -> [p |-> 1, b |-> 0]
            [] line = "RAS" -> [p |-> 1, b |-> 1]
            [] line = "OE" -> [p |-> 1, b |-> 2]
            [] line = "WE" -> [p |-> 1, b |-> 3])

\* the control lines of a wiring
Lines(via) == IF via \in {"18", "20"} THEN {"RAS", "CAS", "WE", "OE"} ELSE {"RAS", "CAS", "WE"}

\* the operations x_LOW and x_HIGH on the line x of a wiring
Low(via, line) == [via |-> via, line |-> line, v |-> 0]

High(via, line) == [via |-> via, line |-> line, v |-> 1]

\* the ports P after the operation op
Drive(P, op) ==
  [P EXCEPT ![LineBit(op.via, op.line).p] = WithBit(@, LineBit(op.via, op.line).b, op.v)]

\* the level of a control line on the ports P
Level(P, via, line) == BitOf(P[LineBit(via, line).p], LineBit(via, line).b)

\* the ports P after the operations ops from the i-th on
RECURSIVE Driven_Ports(_, _, _)
Driven_Ports(P, ops, i) ==
  IF i > Len(ops) THEN P ELSE Driven_Ports(Drive(P, ops[i]), ops, i + 1)

\* the ports with the control lines of a wiring high and all other bits 0
IdlePorts(via) ==
  Driven_Ports(<<0, 0, 0>>,
               <<High(via, "RAS"), High(via, "CAS"), High(via, "WE")>>
                 \o (IF "OE" \in Lines(via) THEN <<High(via, "OE")>> ELSE <<>>), 1)

\* the operations body, n times over
RECURSIVE Times(_, _)
Times(body, n) == IF n = 0 THEN <<>> ELSE body \o Times(body, n - 1)

\* rasHandling_18Pin, rasHandling_18Pin_Alt, rasHandling_20Pin
rasHandling_Ports(via) == <<High(via, "RAS"), Low(via, "RAS")>>

\* a refresh cycle that asserts RAS before CAS
casBeforeRasRefresh_PortsRasFirst(via) ==
  <<High(via, "RAS"), Low(via, "RAS"), Low(via, "CAS"), High(via, "RAS"),
    High(via, "CAS")>>

\* casBeforeRasRefresh_16Pin, _18Pin, _18Pin_Alt, _20Pin
casBeforeRasRefresh_Ports(via) ==
  <<High(via, "RAS"), Low(via, "CAS"), Low(via, "RAS"), High(via, "RAS"),
    High(via, "CAS")>>

\* checkRow_18Pin_Alt(row, patNr, errorNr) on a row that holds its data
checkRow_18Pin_Alt_Ports ==
  rasHandling_Ports("18a")
    \o Times(<<Low("18a", "CAS"), High("18a", "CAS")>>, SigCols)
    \o <<High("18a", "RAS")>>

\* refreshRow_18Pin_Alt(row)
refreshRow_18Pin_Alt_Ports == rasHandling_Ports("18a") \o <<High("18a", "RAS")>>

\* writeRow_18Pin_Alt(r, p) for the ramTypes entry def, on rows that hold
\* their data
writeRow_18Pin_Alt_Ports(r, p, def) ==
  <<High("18a", "RAS"), Low("18a", "RAS"), Low("18a", "WE")>>
    \o (IF p < 2
        THEN Times(<<Low("18a", "CAS"), High("18a", "CAS"), High("18a", "WE"),
                     Low("18a", "CAS"), High("18a", "CAS"), Low("18a", "WE")>>, SigCols)
        ELSE Times(<<Low("18a", "CAS"), High("18a", "CAS")>>, SigCols)
               \o <<High("18a", "WE"), High("18a", "RAS")>>
               \o (IF p < 4 THEN checkRow_18Pin_Alt_Ports
                   ELSE refreshRow_18Pin_Alt_Ports
                          \o Times(checkRow_18Pin_Alt_Ports,
                                   Len(RetentionRows(r, def.rows - 1, def.delayRows)))))

\* sense_write_read_18Pin(row, addr, data)
sense_write_read_18Pin_Ports ==
  rasHandling_Ports("18")
    \o <<Low("18", "WE"), Low("18", "CAS"), High("18", "CAS"), High("18", "WE"),
         Low("18", "OE"), Low("18", "CAS"), High("18", "CAS"), High("18", "OE")>>

\* sense4464_18Pin on the chip ch with the contents cs, rt
sense4464_18Pin_Ports(ch, cs, rt) ==
  LET one == Bus(ch, cs, rt, <<write18Pin(0, 0, 5), read18Pin(0, 0)>>, 1, <<>>)
      a0 == Bus(ch, one.cells, rt,
                <<write18Pin(0, 0, 0), write18Pin(0, 1, 15), read18Pin(0, 0)>>, 1, <<>>)
  IN  rasHandling_Ports("18")
        \o <<Low("18", "WE"), Low("18", "CAS"), High("18", "CAS"), High("18", "WE"),
             High("18", "RAS"), Low("18", "OE")>>
        \o rasHandling_Ports("18")
        \o <<Low("18", "CAS")>>
        \o (IF one.out = <<15>> THEN <<>>
            ELSE <<High("18", "CAS"), High("18", "OE")>>
                   \o rasHandling_Ports("18")
                   \o <<Low("18", "WE"), Low("18", "CAS"), High("18", "CAS"),
                        High("18", "WE"), High("18", "RAS")>>
                   \o sense_write_read_18Pin_Ports
                   \o (IF a0.out # <<0>> THEN <<>> ELSE sense_write_read_18Pin_Ports)
                   \o <<High("18", "RAS")>>)

\* checkRow_20Pin(patNr, row, errNr, is_static) on a row that holds its data
checkRow_20Pin_Ports(is_static, msbCol) ==
  <<Low("20", "OE")>>
    \o Times(IF is_static THEN <<Low("20", "CAS")>>
             ELSE Times(<<Low("20", "CAS"), High("20", "CAS")>>, SigCols), msbCol)
    \o <<High("20", "CAS"), High("20", "OE")>>

\* All control lines HIGH: SBI(PORTB, 0) ... SBI(PORTB, 3)
AllHigh20 == <<High("20", "CAS"), High("20", "RAS"), High("20", "OE"), High("20", "WE")>>

\* writeRow_20Pin(r, patNr, is_static) for the ramTypes entry def, on rows
\* that hold their data
writeRow_20Pin_Ports(r, def) ==
  AllHigh20
    \o rasHandling_Ports("20")
    \o <<High("20", "OE"), Low("20", "WE")>>
    \o Times(Times(<<Low("20", "CAS"), High("20", "CAS")>>, SigCols), def.columns \div 256)
    \o <<High("20", "WE"), High("20", "CAS")>>
    \o rasHandling_Ports("20") \o <<High("20", "RAS")>>
    \o Times(rasHandling_Ports("20") \o checkRow_20Pin_Ports(def.static, def.columns \div 256),
             Len(RetentionRows(r, def.rows - 1, def.delayRows)))
    \o AllHigh20

\* the rows a row routine is first called with: the first row, the first
\* row with a retention read-back, and the row before the last
SigRows(def) == {0, def.delayRows, def.rows - 2}

\* the operations of the routine the run is in
PortOps ==
  CASE pc = "writeRow_18Pin_Alt" -> writeRow_18Pin_Alt_Ports(row, patNr, ramTypes[type])
    [] pc = "sense4464_18Pin" -> sense4464_18Pin_Ports(chip, cells, rowTag)
    [] pc = "writeRow_20Pin" -> writeRow_20Pin_Ports(row, ramTypes[type])
    [] pc = "casBeforeRasRefresh" -> casBeforeRasRefresh_Ports(PatternVia)
    [] OTHER -> <<>>

\* what a step at this level leaves alone
SigFrame ==
  UNCHANGED <<family, chip, rev, interrupts, type, memVars, halfVars, bitIdx, patNr,
              tableVars, typeSuffix, shown, histVars, errVars, ledVars, ev>>

\* a call of a routine by its caller, with the control lines idle
SigCall(f, chips, t, pos, pats, rows) ==
  /\ family = f
  /\ chip \in chips
  /\ type = t
  /\ pc = pos
  /\ patNr \in pats
  /\ row \in rows
  /\ ports = IdlePorts(PatternVia)
  /\ ip = 0
  /\ bitIdx = 0
  /\ cells = << >>
  /\ rowTag = [pr \in 0..(chip.rows - 1) |-> NoWr]
  /\ error_in_lower_half = 0
  /\ error_in_upper_half = 0
  /\ chip_half_status = 0
  /\ typeSuffix = ""
  /\ invCount = 0
  /\ randomTable = generateRandomTable
  /\ shown = ""
  /\ led = 0
  /\ blinks = 0
  /\ written = {}
  /\ checked = {}
  /\ ev = <<>>
  /\ interrupts = TRUE
  /\ NoError

InitSig ==
  \/ SigCall("18", {Good411000}, T_411000, "writeRow_18Pin_Alt", 0..5,
             SigRows(ramTypes[T_411000]))
  \/ SigCall("18", {Good4416, Good4464}, NoType, "sense4464_18Pin", {0}, {0})
  \/ \E t \in {T_514256, T_514258, T_514400, T_514402} :
       SigCall("20", {[(IF t \in {T_514256, T_514258} THEN Good514256 ELSE Good514400)
                         EXCEPT !.sc = ramTypes[t].static]},
               t, "writeRow_20Pin", 4..5, SigRows(ramTypes[t]))
  \/ SigCall("16", {Good16(512)}, T_41256, "casBeforeRasRefresh", {0}, {0})
  \/ SigCall("18", {Good4464}, T_4464, "casBeforeRasRefresh", {0}, {0})
  \/ SigCall("18", {Good411000}, T_411000, "casBeforeRasRefresh", {0}, {0})
  \/ SigCall("20", {Good514256}, T_514256, "casBeforeRasRefresh", {0}, {0})

\* the routine makes its next operation on a control line
portOp ==
  /\ ip < Len(PortOps)
  /\ ports' = Drive(ports, PortOps[ip + 1])
  /\ ip' = ip + 1
  /\ UNCHANGED <<pc, row>>
  /\ SigFrame

\* the routine returns to its caller: a row routine to the row loop, the
\* refresh cycle to the loop of the refresh phase, the sensing routine to
\* the family routine
returnToCaller ==
  /\ pc \in {"writeRow_18Pin_Alt", "sense4464_18Pin", "writeRow_20Pin", "casBeforeRasRefresh"}
  /\ ip = Len(PortOps)
  /\ pc' = CASE pc \in {"writeRow_18Pin_Alt", "writeRow_20Pin"} -> "rowLoop"
             [] pc = "casBeforeRasRefresh" -> "refreshLoop"
             [] OTHER -> "returned"
  /\ UNCHANGED <<ports, ip, row>>
  /\ SigFrame

\* the row loop of the caller calls the row routine again, for the row
\* after one of SigRows
callNextRow ==
  /\ pc = "rowLoop"
  /\ row \in SigRows(ramTypes[type])
  /\ pc' = IF family = "18" THEN "writeRow_18Pin_Alt" ELSE "writeRow_20Pin"
  /\ row' = row + 1
  /\ ip' = 0
  /\ UNCHANGED ports
  /\ SigFrame

\* the loop of the refresh phase calls the refresh cycle again
callNextCycle ==
  /\ pc = "refreshLoop"
  /\ row + 1 < SigCols
  /\ pc' = "casBeforeRasRefresh"
  /\ row' = row + 1
  /\ ip' = 0
  /\ UNCHANGED ports
  /\ SigFrame

NextSig == portOp \/ returnToCaller \/ callNextRow \/ callNextCycle

SpecSig == InitSig /\ [][NextSig]_vars
-----------------------------------------------------------------------------
(* The address setters on the whole port registers: each is called once,   *)
(* with every address of its range, on ports that the control-line         *)
(* primitives and earlier setter calls may have left in any state          *)

\* the port registers a setter may find: every bit clear or set, port by
\* port, and the two alternating patterns
PriorPorts ==
  {<<b, c, d>> : b \in {0, 255}, c \in {0, 255}, d \in {0, 255}}
    \cup {<<85, 170, 85>>, <<170, 85, 170>>}

\* a split-table setter that masks PORTC with 0xE0, the way the setter on the
\* monolithic table does
setAddr16_Random_PortsClearingCas(P, a) ==
  << Or8(And8(P[1], 234), Or8(lut_16_low[a % 32][1], lut_16_high[(a \div 32) % 16][1])),
     Or8(And8(P[2], 224), Or8(lut_16_low[a % 32][2], lut_16_high[(a \div 32) % 16][2])),
     Or8(And8(P[3], 60), Or8(lut_16_low[a % 32][3], lut_16_high[(a \div 32) % 16][3])) >>

\* setAddr16_Random(a): PORTB = (PORTB & 0xEA) | lb | hb,
\* PORTC = (PORTC & 0xEE) | lc | hc, PORTD = (PORTD & 0x3C) | ld | hd
setAddr16_Random_Ports(P, a) ==
  << Or8(And8(P[1], 234), Or8(lut_16_low[a % 32][1], lut_16_high[(a \div 32) % 16][1])),
     Or8(And8(P[2], 238), Or8(lut_16_low[a % 32][2], lut_16_high[(a \div 32) % 16][2])),
     Or8(And8(P[3], 60), Or8(lut_16_low[a % 32][3], lut_16_high[(a \div 32) % 16][3])) >>

\* setAddrData(addr, dataBit) of revision 3.1.1, on the monolithic table:
\* PORTB = (PORTB & 0xEA) | portb, PORTD = portd,
\* PORTC = (PORTC & 0xE0) | portc, with PC1 set when bit 2 of dataBit is
setAddrData_Ports(P, addr, dataBit) ==
  << Or8(And8(P[1], 234), lut_combined[addr][1]),
     Or8(Or8(And8(P[2], 224), lut_combined[addr][2]),
         IF BitOf(dataBit, 2) = 1 THEN 2 ELSE 0),
     lut_combined[addr][3] >>

\* setAddr_18Pin_Alt(a): SBI or CBI of PC4 by a & 1,
\* PORTD = (PORTD & 0b00011000) | val_d, PORTB = (PORTB & 0b11101010) | val_b
setAddr_18Pin_Alt_Ports(P, a) ==
  << Or8(And8(P[1], 234), lut_18Pin_High[(a \div 128) % 8]),
     WithBit(P[2], 4, a % 2),
     Or8(And8(P[3], 24), lut_18Pin_Low[a % 128]) >>

\* a call of a setter with address a on ports P
PortCall(f, pos, addrs) ==
  /\ family = f
  /\ chip = NoChip(0)
  /\ type = NoType
  /\ pc = pos
  /\ patNr = 0
  /\ row \in addrs
  /\ ports \in PriorPorts
  /\ ip = 0
  /\ bitIdx = 0
  /\ cells = << >>
  /\ rowTag = [pr \in 0..(chip.rows - 1) |-> NoWr]
  /\ error_in_lower_half = 0
  /\ error_in_upper_half = 0
  /\ chip_half_status = 0
  /\ typeSuffix = ""
  /\ invCount = 0
  /\ randomTable = generateRandomTable
  /\ shown = ""
  /\ led = 0
  /\ blinks = 0
  /\ written = {}
  /\ checked = {}
  /\ ev = <<>>
  /\ interrupts = TRUE
  /\ ecode = -1
  /\ ekind = -1
  /\ erow = -1
  /\ ecol = -1

InitPort ==
  \/ PortCall("16", "setAddr16_Random", 0..511) /\ rev = "4.0.5"
  \/ PortCall("16", "setAddrData", 0..511) /\ rev = "3.1.1"
  \/ PortCall("18", "setAddr_18Pin_Alt", 0..1023) /\ rev = "4.0.5"

\* what a setter leaves alone
PortFrame ==
  UNCHANGED <<family, chip, rev, ip, interrupts, type, memVars, halfVars, loopVars,
              tableVars, typeSuffix, shown, histVars, errVars, ledVars, ev>>

\* setAddr16_Random(row)
callSetAddr16_Random ==
  /\ pc = "setAddr16_Random"
  /\ ports' = setAddr16_Random_Ports(ports, row)
  /\ pc' = "addrSet16"
  /\ PortFrame

\* setAddrData(row, dataBit), the data argument with bit 2 clear or set
callSetAddrData ==
  /\ pc = "setAddrData"
  /\ \E dataBit \in {0, 4, 85, 170, 255} :
       ports' = setAddrData_Ports(ports, row, dataBit)
  /\ pc' = "addrSetData"
  /\ PortFrame

\* setAddr_18Pin_Alt(row)
callSetAddr_18Pin_Alt ==
  /\ pc = "setAddr_18Pin_Alt"
  /\ ports' = setAddr_18Pin_Alt_Ports(ports, row)
  /\ pc' = "addrSet18"
  /\ PortFrame

NextPort == callSetAddr16_Random \/ callSetAddrData \/ callSetAddr_18Pin_Alt

SpecPort == InitPort /\ [][NextPort]_vars
-----------------------------------------------------------------------------
(* Revision 4.0, 16-pin family: test_16Pin with the half-good tracking of  *)
(* that revision, which keeps one status (chip_half_status) for the column *)
(* half of the read-backs that differed                                    *)

\* the half-good variants of the 4164 in the numbering of ramTypes
T_4532_L == 13
T_4532_H == 14

\* the chips put into the socket for the runs of this revision: the three
\* 16-pin sizes without faults, and 4164s with cells that lose their data
\* while they wait (in the upper column half, in the lower one, in both) or
\* that are stuck
Chips40 ==
  { Good16(128), Good16(256), Good16(512),
    [Good16(256) EXCEPT !.bad = {Region(0, 255, 128, 255, 0, TRUE)}],
    [Good16(256) EXCEPT !.bad = {Region(0, 255, 0, 127, 0, TRUE)}],
    [Good16(256) EXCEPT !.bad = {Region(100, 100, 200, 200, 1, TRUE)}],
    [Good16(256) EXCEPT !.bad = {Region(7, 7, 30, 30, 1, TRUE)}],
    [Good16(256) EXCEPT !.bad = {Region(3, 3, 9, 9, 1, TRUE),
                                 Region(200, 200, 130, 130, 1, TRUE)}],
    [Good16(256) EXCEPT !.bad = {Region(0, 255, 128, 255, 0, FALSE)}],
    [Good16(256) EXCEPT !.bad = {Region(0, 0, 0, 0, 1, FALSE)}] }

Init40 ==
  /\ family = "16"
  /\ Start(Chips40, "present40")
  /\ NoError

\* test_16Pin: if (!ram_present_16Pin()) error(0, 0)
ram_present_16Pin_40 ==
  /\ pc = "present40"
  /\ \E res \in {Bus(chip, cells, rowTag,
                     <<write16Pin(0, 0, 0), write16Pin(1, 0, 1), read16Pin(0, 0),
                       read16Pin(1, 0), read16Pin(0, 0)>>, 1, <<>>)} :
       /\ cells' = res.cells
       /\ Found(res.out = <<0, 1, 0>>, "sense40")
  /\ type' = type
  /\ SenseFrame

\* sense41256_16Pin of revision 4.0 on the chip ch with the cells cs: the
\* cells it leaves, the type and the status it sets (-2 for a type or a
\* status it does not assign) and whether it has called error(0, 0)
sense41256_16Pin_40_result(ch, cs, rt) ==
  LET one == Bus(ch, cs, rt, <<write16Pin(0, 0, 0), read16Pin(0, 0)>>, 1, <<>>)
      two == Bus(ch, one.cells, rt, <<write16Pin(0, 192, 0), read16Pin(0, 192)>>, 1, <<>>)
      a8 == Bus(ch, one.cells, rt,
                <<write16Pin(0, 0, 0), write16Pin(256, 0, 1), read16Pin(0, 0)>>, 1, <<>>)
      a7 == Bus(ch, a8.cells, rt,
                <<write16Pin(0, 0, 0), write16Pin(128, 0, 1), read16Pin(0, 0)>>, 1, <<>>)
      up == Bus(ch, a7.cells, rt,
                <<write16Pin(0, 192, 1), write16Pin(1, 192, 1), write16Pin(50, 192, 1),
                  write16Pin(100, 192, 1), write16Pin(200, 192, 1),
                  read16Pin(0, 192), read16Pin(1, 192), read16Pin(50, 192),
                  read16Pin(100, 192), read16Pin(200, 192)>>, 1, <<>>)
      upper_errors == Cardinality({i \in 1..5 : up.out[i] # 1})
  IN  IF one.out[1] # 0
      THEN (IF two.out[1] = 0
            THEN [cells |-> two.cells, type |-> T_4164, status |-> 1, err |-> FALSE]
            ELSE [cells |-> two.cells, type |-> -2, status |-> -2, err |-> TRUE])
      ELSE IF a8.out[1] = 0
      THEN [cells |-> a8.cells, type |-> T_41256, status |-> -2, err |-> FALSE]
      ELSE IF a7.out[1] # 0
      THEN [cells |-> a7.cells, type |-> T_4816, status |-> -2, err |-> FALSE]
      ELSE [cells |-> up.cells, type |-> T_4164,
            status |-> IF upper_errors >= 3 THEN -1 ELSE 0, err |-> FALSE]

\* test_16Pin: sense41256_16Pin()
sense41256_16Pin_40 ==
  /\ pc = "sense40"
  /\ \E res \in {sense41256_16Pin_40_result(chip, cells, rowTag)} :
       /\ cells' = res.cells
       /\ type' = IF res.type = -2 THEN type ELSE res.type
       /\ chip_half_status' = IF res.status = -2 THEN chip_half_status ELSE res.status
       /\ IF res.err THEN Raise(0, 0) ELSE Goto("writeRAMType40")
  /\ ev' = <<>>
  /\ UNCHANGED <<fixVars, interrupts, rowTag, error_in_lower_half, error_in_upper_half,
                 loopVars, tableVars, typeSuffix, shown, ledVars, histVars>>

\* test_16Pin: the type on the display, "4164/4532?" for a 4164
writeRAMType_16Pin_40 ==
  /\ pc = "writeRAMType40"
  /\ shown' = IF type = T_4164 THEN "4164/4532?" ELSE ramTypes[type].name
  /\ Goto("addr40")
  /\ ev' = <<>>
  /\ UNCHANGED <<fixVars, interrupts, type, memVars, halfVars, loopVars, tableVars,
                 typeSuffix, ledVars, histVars>>

\* checkAddressing_16Pin of revision 4.0, the row bits from b on: the cells
\* it leaves, the status, and the code of its error() call (-1: none)
RECURSIVE checkAddressing_16Pin_40_rows(_, _, _, _, _, _, _)
checkAddressing_16Pin_40_rows(ch, cs, rt, t, st, b, row_bits) ==
  IF b >= row_bits THEN [cells |-> cs, status |-> st, code |-> -1]
  ELSE LET res == Bus(ch, cs, rt,
                      <<write16Pin(0, 0, 0), write16Pin(Pow2(b), 0, 1), read16Pin(0, 0),
                        read16Pin(Pow2(b), 0)>>, 1, <<>>)
       IN  IF t = T_4164 /\ b = 7
           THEN checkAddressing_16Pin_40_rows(ch, res.cells, rt, t,
                                              IF res.out # <<0, 1>> THEN 0 ELSE st,
                                              b + 1, row_bits)
           ELSE IF res.out # <<0, 1>>
           THEN [cells |-> res.cells, status |-> st, code |-> b]
           ELSE checkAddressing_16Pin_40_rows(ch, res.cells, rt, t, st, b + 1, row_bits)

\* the column bits from b on, on the row test_row
RECURSIVE checkAddressing_16Pin_40_cols(_, _, _, _, _, _)
checkAddressing_16Pin_40_cols(ch, cs, rt, test_row, b, col_bits) ==
  IF b >= col_bits THEN [cells |-> cs, code |-> -1]
  ELSE LET res == Bus(ch, cs, rt,
                      <<write16Pin(test_row, 0, 0), write16Pin(test_row, Pow2(b), 1),
                        read16Pin(test_row, 0), read16Pin(test_row, Pow2(b))>>, 1, <<>>)
       IN  IF res.out # <<0, 1>> THEN [cells |-> res.cells, code |-> b + 16]
           ELSE checkAddressing_16Pin_40_cols(ch, res.cells, rt, test_row, b + 1, col_bits)

\* test_16Pin: checkAddressing_16Pin(), then the call of run_16Pin_tests
checkAddressing_16Pin_40 ==
  /\ pc = "addr40"
  /\ \E def \in {ramTypes[type]} :
     \E rb \in {checkAddressing_16Pin_40_rows(chip, cells, rowTag, type, chip_half_status,
                                              0, countBits(def.rows - 1))} :
     \E cb \in {IF rb.code >= 0 THEN [cells |-> rb.cells, code |-> rb.code]
                ELSE checkAddressing_16Pin_40_cols(chip, rb.cells, rowTag, def.rows \div 2,
                                                   0, countBits(def.columns - 1))} :
       /\ cells' = cb.cells
       /\ chip_half_status' = rb.status
       /\ IF cb.code >= 0 THEN Raise(cb.code, 1) ELSE Goto("rows")
  /\ ev' = <<>>
  /\ UNCHANGED <<fixVars, interrupts, type, rowTag, error_in_lower_half,
                 error_in_upper_half, loopVars, tableVars, typeSuffix, shown, ledVars,
                 histVars>>

\* checkRow_16Pin of revision 4.0 after its column loop has stopped at the
\* column error_column: the status it leaves and whether it calls error()
checkRow_16Pin_40_half(t, st, error_column) ==
  IF t = T_4164
  THEN (IF st = 0 THEN [status |-> IF error_column >= 128 THEN -1 ELSE 1, hit |-> FALSE]
        ELSE IF (st = -1 /\ error_column < 128) \/ (st = 1 /\ error_column >= 128)
        THEN [status |-> st, hit |-> TRUE]
        ELSE [status |-> st, hit |-> FALSE])
  ELSE IF t = T_4532_L /\ error_column >= 128 THEN [status |-> st, hit |-> FALSE]
  ELSE IF t = T_4532_H /\ error_column < 128 THEN [status |-> st, hit |-> FALSE]
  ELSE [status |-> st, hit |-> TRUE]

\* the read-backs of one writeRow_16Pin call of revision 4.0 from the i-th
\* on, up to the first that ends in error(); scans[i] holds the cycles of the
\* read-back of row rs[i] that differ, and the column loop stops at the first
RECURSIVE checkRows_16Pin_40(_, _, _, _, _)
checkRows_16Pin_40(scans, rs, i, t, st) ==
  IF i > Len(rs) THEN [status |-> st, hit |-> FALSE, done |-> Len(rs)]
  ELSE IF scans[i] = {} THEN checkRows_16Pin_40(scans, rs, i + 1, t, st)
  ELSE LET h == checkRow_16Pin_40_half(t, st, RandLogCol16(SetMin(scans[i])))
       IN  IF h.hit THEN [status |-> h.status, hit |-> TRUE, done |-> i]
           ELSE checkRows_16Pin_40(scans, rs, i + 1, t, h.status)

\* writeRow_16Pin(row, cols, patNr) of revision 4.0, with the step of the
\* loops of run_16Pin_tests that follows it. Patterns 0 and 1 are read back
\* cell by cell right after each write, and any difference there is
\* error(patNr + 1, 2); the row is then read back by checkRow_16Pin.
writeRow_16Pin_40 ==
  /\ pc = "rows"
  /\ \E def \in {ramTypes[type]} :
     \E tag \in {Wr(IF patNr < 2 THEN "fix16" ELSE IF patNr < 4 THEN "rot16" ELSE "rand16",
                    patNr, row, invCount, 0)} :
     \E rt1 \in {PageWrite(chip, rowTag, "16", PhysRow(chip, PinAddr("16", row)), tag)} :
     \E stuck \in {patNr < 2
                   /\ RowScan(chip, "16", tag,
                              RowFaults(chip, PhysRow(chip, PinAddr("16", row)), FALSE),
                              def.columns, tag, randomTable) # {}} :
     \E rs \in {IF stuck THEN <<>>
                ELSE IF patNr < 4 THEN <<row>>
                ELSE RetentionRows(row, def.rows - 1, def.delayRows)} :
     \E scans \in {[i \in 1..Len(rs) |->
                      RowScan(chip, "16", rt1[PhysRow(chip, PinAddr("16", rs[i]))],
                              RowFaults(chip, PhysRow(chip, PinAddr("16", rs[i])),
                                        patNr >= 4),
                              def.columns, [tag EXCEPT !.lrow = rs[i]], randomTable)]} :
     \E res \in {checkRows_16Pin_40(scans, rs, 1, type, chip_half_status)} :
       /\ rowTag' = rt1
       /\ cells' = PageDrop(chip, cells, "16", PhysRow(chip, PinAddr("16", row)))
       /\ chip_half_status' = res.status
       /\ ev' = RowEvents(row, rs, res.done)
       /\ written' = Written(row)
       /\ checked' = Checked(row, rs, res.done)
       /\ RowStep(stuck \/ res.hit, patNr + 1, IF patNr < 4 THEN 2 ELSE 3, <<-1, -1>>,
                  row, def.rows, "classify40")
  /\ interrupts' = TRUE
  /\ UNCHANGED <<fixVars, type, bitIdx, error_in_lower_half, error_in_upper_half,
                 tableVars, typeSuffix, shown, ledVars>>

\* run_16Pin_tests of revision 4.0 after its loops: the type for the status
reclassify_40(t, st) ==
  IF t = T_4164 /\ st # 0
  THEN (IF st = -1 THEN T_4532_H ELSE T_4532_L)
  ELSE t

\* run_16Pin_tests: "After all patterns complete, check if 4532 was
\* detected", and the branch of test_16Pin that follows the return
run_16Pin_tests_40_end ==
  /\ pc = "classify40"
  /\ \E t1 \in {reclassify_40(type, chip_half_status)} :
       /\ type' = t1
       /\ shown' = IF t1 # type THEN ramTypes[t1].name ELSE shown
       /\ Goto(IF t1 = T_41256 THEN "refresh" ELSE "testOK")
  /\ ev' = <<>>
  /\ UNCHANGED <<fixVars, interrupts, memVars, halfVars, loopVars, tableVars, typeSuffix,
                 ledVars, histVars>>

Next40 ==
  \/ ram_present_16Pin_40
  \/ sense41256_16Pin_40
  \/ writeRAMType_16Pin_40
  \/ checkAddressing_16Pin_40
  \/ writeRow_16Pin_40
  \/ invertTable
  \/ run_16Pin_tests_40_end
  \/ refreshTimeTest_16Pin
  \/ testOK
  \/ error

Spec40 == Init40 /\ [][Next40]_vars

-----------------------------------------------------------------------------
(* Mismatches outside the half-good heuristic                              *)

\* the read-back of row r that the step out of a pattern pass has made
\* differs from the data the pass expects in the row
ReadBackDiffers(r) ==
  RowScan(chip, PatternVia, rowTag'[PhysRow(chip, PinAddr(PatternVia, r))],
          RowFaults(chip, PhysRow(chip, PinAddr(PatternVia, r)), patNr >= 4),
          RowCycles, RowWriteOf(r), randomTable) # {}

\* C31: for a type that is not a half-good candidate (4164, 4532, 3732) a
\* step of a pattern pass whose read-back of a row differs from the expected
\* data is a call of error(): the differing read-back is the last row
\* operation of the step, and the half flags play no part in it. A step
\* without a differing read-back does not call error().
MismatchIsErrorOutsideHalfGood ==
  [][(pc \in {"fast", "rows"} /\ type \notin {T_4164, T_4532, T_3732})
       => /\ \A i \in 1..Len(ev') :
                (ev'[i].op = "C" /\ ReadBackDiffers(ev'[i].r))
                  => (pc' = "error" /\ i = Len(ev'))
          /\ pc' = "error"
               => /\ ev'[Len(ev')].op = "C"
                  /\ ReadBackDiffers(ev'[Len(ev')].r)]_vars

\* a 4816 whose cell (3, 9) is stuck at 1 has ended in error(1, 2) in the
\* read-back of row 3 of pass 0, with error_in_lower_half = 3 and
\* error_in_upper_half = 0
MismatchIsErrorOutsideHalfGoodWitness ==
  /\ family = "16" /\ type = T_4816
  /\ chip = [Good16(128) EXCEPT !.bad = {Region(3, 3, 9, 9, 1, FALSE)}]
  /\ pc = "error" /\ ecode = 1 /\ ekind = 2 /\ patNr = 0 /\ row = 3
  /\ error_in_lower_half = 3 /\ error_in_upper_half = 0
  /\ ev = <<Ev("W", 3), Ev("C", 3)>>
  /\ blinks = 0 /\ led = 0

-----------------------------------------------------------------------------
(* Chips without faults                                                    *)

\* the chip has no faults at all: its address bits and cells work and its
\* refresh counter counts
Sound(ch) == FaultFree(ch) /\ ch.cbr

\* the type whose geometry the chip has
GeometryType(ch) ==
  CASE ch.pin = "16" ->
         (IF ch.rows = 512 THEN T_41256 ELSE IF ch.rows = 256 THEN T_4164 ELSE T_4816)
    [] ch.pin = "18" -> (IF ch.cols = 64 THEN T_4416 ELSE T_4464)
    [] ch.pin = "18a" -> T_411000
    [] ch.pin = "20" ->
         (IF ch.rows = 512 THEN (IF ch.sc THEN T_514258 ELSE T_514256)
          ELSE (IF ch.sc THEN T_514402 ELSE T_514400))
    [] OTHER -> (IF ch.rows = 128 THEN T_4116 ELSE T_4027)

\* C32: a run on a chip without faults never enters error(); once the type
\* is sensed it is the type of the chip's geometry and stays so, no pass
\* sets a half flag, and the run is in testOK() with that type and without
\* a suffix when it ends.
SoundChipEndsInTestOK ==
  /\ [](Sound(chip)
          => /\ pc # "error" /\ ecode = -1 /\ ekind = -1
             /\ error_in_lower_half = 0 /\ error_in_upper_half = 0
             /\ typeSuffix = ""
             /\ pc \in {"fast", "rows", "invert", "classify", "refresh", "testOK"}
                  => type = GeometryType(chip))
  /\ [][(Sound(chip) /\ pc \notin {"error", "testOK"}) => Progress' > Progress]_vars
  /\ [][(Sound(chip) /\ pc = "testOK") => pc' = "testOK" /\ type' = type]_vars

\* a 4816 without faults is in testOK() after pass 5, as a 4816
SoundChipEndsInTestOKWitness ==
  /\ family = "16" /\ chip = Good16(128) /\ type = T_4816
  /\ pc = "testOK" /\ patNr = 5 /\ row = 127 /\ ecode = -1 /\ typeSuffix = ""
  /\ error_in_lower_half = 0 /\ error_in_upper_half = 0
  /\ blinks = 1 /\ led = 0

-----------------------------------------------------------------------------
(* The control lines when a routine returns                                *)

\* C33: when a sensing routine or a row write routine of the pattern loop
\* has returned to its caller, RAS, CAS and WE of its wiring are high.
ReturnsWithLinesHigh ==
  (pc \in {"rowLoop", "returned"})
     => \A line \in {"RAS", "CAS", "WE"} : Level(ports, PatternVia, line) = 1

-----------------------------------------------------------------------------
(* The CAS-before-RAS refresh cycle                                        *)

\* the level of a control line of the wiring of the run
LineNow(line) == Level(ports, PatternVia, line)

\* the level of the line after the step
LineNext(line) == Level(ports', PatternVia, line)

\* C35: in a refresh cycle of any of the four wirings CAS falls while RAS
\* is high and stays high, RAS falls only while CAS is low, CAS rises only
\* when RAS is high again, RAS and CAS are both low in the course of the
\* cycle, and the cycle returns, after its five operations, with both lines
\* high.
CasFallsBeforeRas ==
  /\ [][(pc = "casBeforeRasRefresh" /\ LineNow("CAS") = 1 /\ LineNext("CAS") = 0)
          => (LineNow("RAS") = 1 /\ LineNext("RAS") = 1)]_vars
  /\ [][(pc = "casBeforeRasRefresh" /\ LineNow("RAS") = 1 /\ LineNext("RAS") = 0)
          => (LineNow("CAS") = 0 /\ LineNext("CAS") = 0)]_vars
  /\ [][(pc = "casBeforeRasRefresh" /\ LineNow("CAS") = 0 /\ LineNext("CAS") = 1)
          => (LineNow("RAS") = 1 /\ LineNext("RAS") = 1)]_vars
  /\ []((pc = "casBeforeRasRefresh" /\ ip = 3)
          => (LineNow("CAS") = 0 /\ LineNow("RAS") = 0))
  /\ []((pc = "refreshLoop")
          => (ip = 5 /\ LineNow("CAS") = 1 /\ LineNow("RAS") = 1))

\* the third refresh cycle in a row on the 20-pin wiring has returned with
\* RAS (PB1) and CAS (PB0) high
CasFallsBeforeRasWitness ==
  /\ family = "20" /\ type = T_514256 /\ pc = "refreshLoop" /\ row = 2 /\ ip = 5
  /\ BitOf(ports[1], 0) = 1 /\ BitOf(ports[1], 1) = 1

-----------------------------------------------------------------------------
\* the bits of the ports that carry no address, for the 16-pin wiring: RAS
\* (PB1), CAS (PC3), WE (PB3), DIN (PC1) and PD2..PD5; for the 18-pin alt
\* wiring: RAS (PB3), CAS (PC2), WE (PC1), DIN (PC0) and PD3, PD4
ControlBits(f, P) ==
  IF f = "16"
    THEN <<BitOf(P[1], 1), BitOf(P[2], 3), BitOf(P[1], 3), BitOf(P[2], 1),
           BitOf(P[3], 2), BitOf(P[3], 3), BitOf(P[3], 4), BitOf(P[3], 5)>>
    ELSE <<BitOf(P[1], 3), BitOf(P[2], 2), BitOf(P[2], 1), BitOf(P[2], 0),
           BitOf(P[3], 3), BitOf(P[3], 4)>>

\* C34 as stated: every address setter, the split-table ones and the one on
\* the monolithic table, leaves RAS, CAS, WE, DIN and the non-address bits of
\* PORTD as they were, for every address and every prior port state
EverySetterKeepsControlBits ==
  [][(pc \in {"setAddr16_Random", "setAddrData", "setAddr_18Pin_Alt"})
       => (ControlBits(family, ports') = ControlBits(family, ports))]_vars

\* C34: the split-table setters setAddr16_Random and setAddr_18Pin_Alt leave
\* RAS, CAS, WE, DIN and the non-address bits of PORTD as they were, for every
\* address and every prior port state; setAddrData on the monolithic table
\* keeps only RAS and WE, and leaves CAS low and PD2..PD5 clear
SplitSetterKeepsControlBits ==
  [][/\ pc \in {"setAddr16_Random", "setAddr_18Pin_Alt"}
          => ControlBits(family, ports') = ControlBits(family, ports)
     /\ pc = "setAddrData"
          => /\ BitOf(ports'[1], 1) = BitOf(ports[1], 1)
             /\ BitOf(ports'[1], 3) = BitOf(ports[1], 3)
             /\ BitOf(ports'[2], 3) = 0
             /\ (\A b \in 2..5 : BitOf(ports'[3], b) = 0)]_vars

\* setAddr16_Random(341) has run on ports that had every bit set: RAS, CAS,
\* WE, DIN and PD2..PD5 are still set
SplitSetterKeepsControlBitsWitness ==
  /\ pc = "addrSet16"
  /\ row = 341
  /\ ControlBits("16", ports) = <<1, 1, 1, 1, 1, 1, 1, 1>>
  /\ ports[3] = 61

-----------------------------------------------------------------------------
\* C36 as stated: when a pattern or retention failure passes row and col to
\* error(), they are the row address and the full column address (with the
\* column bits above bit 7) of the cell whose read-back differed: on a chip
\* with working address lines, a faulty cell of the chip
ErrorNamesFailingCell ==
  (pc = "error" /\ ekind \in {2, 3} /\ erow # -1 /\ chip.bad # {} /\ chip.sab = NoSab)
    => \E f \in chip.bad :
         /\ f.r0 <= erow /\ erow <= f.r1
         /\ f.c0 <= ecol /\ ecol <= f.c1

-----------------------------------------------------------------------------
\* C37 as stated: in revision 4.0, when run_16Pin_tests completes for a chip
\* detected as a 4164 whose recorded errors are all in the upper column
\* half (chip_half_status = -1), the chip is reclassified as T_4532_L, the
\* variant with the good lower half, and when they are all in the lower
\* column half (chip_half_status = 1) as T_4532_H
HalfStatusNamesGoodHalf ==
  [][(pc = "classify40" /\ type = T_4164)
       => /\ chip_half_status = -1 => type' = T_4532_L
          /\ chip_half_status = 1 => type' = T_4532_H]_vars

-----------------------------------------------------------------------------
\* senseRAM_20Pin: what the read of row 0 returns after the write of 0x5
\* there, with the write to row 512 in between (TRUE) and without it
Row0ReadBack(withPeer) ==
  Bus(chip, cells, rowTag,
      IF withPeer
      THEN <<write20Pin(0, 0, 5), write20Pin(512, 512, 10), read20Pin(0, 0)>>
      ELSE <<write20Pin(0, 0, 5), read20Pin(0, 0)>>, 1, <<>>).out

-----------------------------------------------------------------------------
\* the peers of the probes of sense41256_16Pin: A8, row A7, column A7
Peers16 == {<<256, 0>>, <<128, 0>>, <<0, 128>>}

\* the peer x and the base cell (row 0, column 0) are one cell of the chip
AliasesBase(x) ==
  CellOf(chip, write16Pin(x[1], x[2], 1)) = CellOf(chip, read16Pin(0, 0))

\* the cells with the value v0 left in the base cell and v1 in the peer x
LeftBehind(x, v0, v1) ==
  WriteCell(WriteCell(cells, CellOf(chip, write16Pin(x[1], x[2], 1)), v1),
            CellOf(chip, read16Pin(0, 0)), v0)

\* C39: every probe of sense41256_16Pin writes 0 to the base cell (row 0,
\* column 0) right before it writes 1 to its peer and then reads the base:
\* whatever an earlier probe has left in the two cells, the value read is 1
\* if base and peer are one cell and 0 if they are not, and the type follows
\* from these values alone
ProbeClearsBase ==
  /\ [](\A x \in Peers16 :
          /\ Len(Probe16(x[1], x[2])) = 3
          /\ Probe16(x[1], x[2])[1] = write16Pin(0, 0, 0)
          /\ Probe16(x[1], x[2])[2] = write16Pin(x[1], x[2], 1)
          /\ Probe16(x[1], x[2])[3] = read16Pin(0, 0))
  /\ []((family = "16" /\ pc = "senseA8" /\ chip.pin = "16")
          => \A x \in Peers16 : \A v0 \in 0..1 : \A v1 \in 0..1 :
               Bus(chip, LeftBehind(x, v0, v1), rowTag, Probe16(x[1], x[2]), 1, <<>>).out
                 = <<IF AliasesBase(x) THEN 1 ELSE 0>>)
  /\ [][(family = "16" /\ pc = "senseA8" /\ chip.pin = "16")
          => type' = IF ~AliasesBase(<<256, 0>>) THEN T_41256
                     ELSE IF ~AliasesBase(<<128, 0>>) THEN T_4164
                     ELSE IF ~AliasesBase(<<0, 128>>) THEN T_4532
                     ELSE T_4816]_vars

\* a 4164 after sense41256_16Pin: the A8 probe had left a 1 in the base
\* cell, the row A7 probe has read 0 there, and its 1 is in the peer
ProbeClearsBaseWitness ==
  /\ family = "16"
  /\ pc = "writeRAMType"
  /\ chip = Good16(256)
  /\ type = T_4164
  /\ <<0, 0>> \in DOMAIN cells /\ cells[<<0, 0>>] = 0
  /\ <<128, 0>> \in DOMAIN cells /\ cells[<<128, 0>>] = 1

\* every row read back and every delays index of the writeRow call for row r
\* of a table entry def is inside the row range and the delays array
CallInBounds(def, r) ==
  /\ \A i \in 1..Len(RetentionRows(r, def.rows - 1, def.delayRows)) :
       RetentionRows(r, def.rows - 1, def.delayRows)[i] \in 0..(def.rows - 1)
  /\ \A i \in 1..Len(DelayIndex(r, def.rows - 1, def.delayRows)) :
       DelayIndex(r, def.rows - 1, def.delayRows)[i] \in 0..(DelayCount - 1)

\* the same for every row of every entry of ramTypes, as the 16-pin routines
\* and as the other routines use the table
TableInBounds ==
  \A t \in DOMAIN ramTypes : \A def \in {ramTypes[t], ramTypes16[t]} :
    \A r \in 0..(def.rows - 1) : CallInBounds(def, r)

\* C40: during retention testing every index into ramTypes[type].delays is
\* in 0..5 and every row read back is in 0..rows-1, for every row of every
\* entry of the ramTypes table; in the run, the rows read back by each step
\* are rows of the type under test
RetentionInBounds ==
  /\ TableInBounds
  /\ RetentionPass => CallInBounds(PassDef, row)
  /\ (type # NoType) => \A i \in 1..Len(ev) :
       (ev[i].op = "C") => (ev[i].r \in 0..(PassDef.rows - 1))

\* the last call of pass 4 on a 41256 has read back the rows 510 and 511 and
\* has waited delays[1] after each
RetentionInBoundsWitness ==
  /\ family = "16" /\ type = T_41256 /\ patNr = 5 /\ row = 0
  /\ ev = <<Ev("W", 511), Ev("C", 510), Ev("C", 511)>>
  /\ DelayIndex(511, ramTypes16[type].rows - 1, ramTypes16[type].delayRows) = <<1, 1>>
====
